---- MODULE Spec2Model ----
(***************************************************************************)
(* The Echo archery detection system: the ArrowDetector of                 *)
(* echo_detector.py (calibrate, detect_arrows, reset, the read-only        *)
(* queries) and the request handlers of main.py that drive it, as a state  *)
(* machine.  Every handler is a thread that runs through its code one      *)
(* shared-memory access at a time; Spec runs the requests one after the    *)
(* other, SpecConc lets the threads of the threaded web server interleave. *)
(*                                                                         *)
(* Numbers.  Centimetre values are exact fractions n/d; a value the code   *)
(* rounds to two decimals is kept in hundredths, a ring radius in          *)
(* millimetres.  The clock counts ticks, TicksPerSecond to the second.     *)
(***************************************************************************)
EXTENDS Integers, Sequences, FiniteSets, TLC

\* ------------------------------------------------------------------------
\* echo_config.py
\* ------------------------------------------------------------------------

\* TARGET_SIZES: diameter in cm, ring radii in mm (6.1 cm = 61 mm).
TARGET_SIZES ==
    ("80cm" :> [diameter |-> 80,
                rings |-> << [score |-> 10, radius_mm |-> 40],
                             [score |-> 9,  radius_mm |-> 80],
                             [score |-> 8,  radius_mm |-> 160],
                             [score |-> 7,  radius_mm |-> 240],
                             [score |-> 6,  radius_mm |-> 320],
                             [score |-> 5,  radius_mm |-> 400] >>])
    @@
    ("122cm" :> [diameter |-> 122,
                 rings |-> << [score |-> 10, radius_mm |-> 61],
                              [score |-> 9,  radius_mm |-> 122],
                              [score |-> 8,  radius_mm |-> 244],
                              [score |-> 7,  radius_mm |-> 366],
                              [score |-> 6,  radius_mm |-> 488],
                              [score |-> 5,  radius_mm |-> 610] >>])

DEFAULT_TARGET_SIZE == "122cm"

\* Pixels.
MIN_ARROW_AREA == 100
MAX_ARROW_AREA == 50000

\* 3.0 cm.
MIN_ARROW_DISTANCE_CM == 3

\* Ticks of the clock in one second.
TicksPerSecond == 2

\* 1.0 s, in ticks.
DETECTION_COOLDOWN == 1 * TicksPerSecond

\* ------------------------------------------------------------------------
\* Bounds of the model
\* ------------------------------------------------------------------------

\* A detect_arrows call is started only while the session can take its
\* candidates without growing beyond MaxArrows records.
MaxArrows == 2

\* The clock runs from StartTime to StartTime + MaxTime.
MaxTime == 2

\* The clients of SpecConc send MaxRequests requests in all.
MaxRequests == 4

\* ------------------------------------------------------------------------
\* Arithmetic of the floats, exactly
\* ------------------------------------------------------------------------

None == "None"

Abs(n) == IF n < 0 THEN -n ELSE n

Max2(a, b) == IF a >= b THEN a ELSE b

Min2(a, b) == IF a <= b THEN a ELSE b

RECURSIVE Gcd(_, _)
Gcd(a, b) == IF b = 0 THEN a ELSE Gcd(b, a % b)

\* The fraction n/d (d > 0) in lowest terms.
Frac(n, d) == LET g == Gcd(Abs(n), d) IN [n |-> n \div g, d |-> d \div g]

\* round(n/d) as Python rounds a float: to the nearest integer, a tie to the
\* even one.  d > 0.
RoundHalfEven(n, d) ==
    LET fl == n \div d
        twice == 2 * (n % d)
    IN  IF twice < d THEN fl
        ELSE IF twice > d THEN fl + 1
        ELSE IF fl % 2 = 0 THEN fl ELSE fl + 1

\* floor(sqrt(v)) for 0 <= v < 2^31.
RECURSIVE IsqrtSearch(_, _, _)
IsqrtSearch(v, lo, hi) ==
    IF lo = hi THEN lo
    ELSE LET mid == (lo + hi + 1) \div 2
         IN  IF mid * mid <= v THEN IsqrtSearch(v, mid, hi)
             ELSE IsqrtSearch(v, lo, mid - 1)

Isqrt(v) == IsqrtSearch(v, 0, 46340)

\* round(x, 2) of the cm value x = n/d, in hundredths.
Round2(x) == RoundHalfEven(100 * x.n, x.d)

\* np.sqrt(dx_cm**2 + dy_cm**2) of two cm values of one denominator: the
\* distance is kept as its square, the fraction sq/den^2.
Hypot(x, y) == [sq |-> x.n * x.n + y.n * y.n, den |-> x.d]

\* round(distance_cm, 2) in hundredths: the n with
\* (2n-1) * den <= 200 * sqrt(sq) < (2n+1) * den.
RoundDist2(dist) == ((Isqrt(40000 * dist.sq) \div dist.den) + 1) \div 2

\* np.degrees(np.arctan2(dy, dx)) in thousandths of a degree, tabulated for
\* the pixel offsets -6 <= dy <= 6, -8 <= dx <= 8 (the angle of the cm offsets
\* is the angle of the pixel offsets, pixels_per_cm being positive).  For an
\* offset far to the right of the centre, dx >= 100 * |dy|, the angle is
\* dy/dx radians to less than a tenth of a thousandth of a degree:
\* dy/dx * 180000/pi thousandths, with pi = 355/113.
ATAN2_MDEG ==
  <<
     <<-143130, -139399, -135000, -129806, -123690, -116565, -108435, -99462, -90000, -80538, -71565, -63435, -56310, -50194, -45000, -40601, -36870>>,
     <<-147995, -144462, -140194, -135000, -128660, -120964, -111801, -101310, -90000, -78690, -68199, -59036, -51340, -45000, -39806, -35538, -32005>>,
     <<-153435, -150255, -146310, -141340, -135000, -126870, -116565, -104036, -90000, -75964, -63435, -53130, -45000, -38660, -33690, -29745, -26565>>,
     <<-159444, -156801, -153435, -149036, -143130, -135000, -123690, -108435, -90000, -71565, -56310, -45000, -36870, -30964, -26565, -23199, -20556>>,
     <<-165964, -164055, -161565, -158199, -153435, -146310, -135000, -116565, -90000, -63435, -45000, -33690, -26565, -21801, -18435, -15945, -14036>>,
     <<-172875, -171870, -170538, -168690, -165964, -161565, -153435, -135000, -90000, -45000, -26565, -18435, -14036, -11310, -9462, -8130, -7125>>,
     <<180000, 180000, 180000, 180000, 180000, 180000, 180000, 180000, 0, 0, 0, 0, 0, 0, 0, 0, 0>>,
     <<172875, 171870, 170538, 168690, 165964, 161565, 153435, 135000, 90000, 45000, 26565, 18435, 14036, 11310, 9462, 8130, 7125>>,
     <<165964, 164055, 161565, 158199, 153435, 146310, 135000, 116565, 90000, 63435, 45000, 33690, 26565, 21801, 18435, 15945, 14036>>,
     <<159444, 156801, 153435, 149036, 143130, 135000, 123690, 108435, 90000, 71565, 56310, 45000, 36870, 30964, 26565, 23199, 20556>>,
     <<153435, 150255, 146310, 141340, 135000, 126870, 116565, 104036, 90000, 75964, 63435, 53130, 45000, 38660, 33690, 29745, 26565>>,
     <<147995, 144462, 140194, 135000, 128660, 120964, 111801, 101310, 90000, 78690, 68199, 59036, 51340, 45000, 39806, 35538, 32005>>,
     <<143130, 139399, 135000, 129806, 123690, 116565, 108435, 99462, 90000, 80538, 71565, 63435, 56310, 50194, 45000, 40601, 36870>>
  >>

Atan2Mdeg(dy, dx) ==
    IF Abs(dy) <= 6 /\ Abs(dx) <= 8 THEN ATAN2_MDEG[dy + 7][dx + 9]
    ELSE RoundHalfEven(dy * 20340000, 355 * dx)

\* ------------------------------------------------------------------------
\* What OpenCV reports of a frame
\* ------------------------------------------------------------------------

\* A contour is its sequence of boundary points <<x, y>>, as
\* cv2.findContours(..., CHAIN_APPROX_SIMPLE) returns it.
Rect(x0, y0, x1, y1) == << <<x0, y0>>, <<x1, y0>>, <<x1, y1>>, <<x0, y1>> >>

\* cv2.contourArea, doubled (the shoelace sum).
RECURSIVE Shoelace(_, _)
Shoelace(pts, i) ==
    IF i > Len(pts) THEN 0
    ELSE LET p == pts[i]
             q == pts[IF i = Len(pts) THEN 1 ELSE i + 1]
         IN  p[1] * q[2] - q[1] * p[2] + Shoelace(pts, i + 1)

ContourArea2(pts) == Abs(Shoelace(pts, 1))

RECURSIVE FoldMin(_, _, _)
FoldMin(pts, k, i) ==
    IF i > Len(pts) THEN pts[1][k]
    ELSE Min2(pts[i][k], FoldMin(pts, k, i + 1))

RECURSIVE FoldMax(_, _, _)
FoldMax(pts, k, i) ==
    IF i > Len(pts) THEN pts[1][k]
    ELSE Max2(pts[i][k], FoldMax(pts, k, i + 1))

\* cv2.boundingRect: x, y, w, h.
BoundingRect(pts) ==
    [x |-> FoldMin(pts, 1, 1), y |-> FoldMin(pts, 2, 1),
     w |-> FoldMax(pts, 1, 1) - FoldMin(pts, 1, 1) + 1,
     h |-> FoldMax(pts, 2, 1) - FoldMin(pts, 2, 1) + 1]

\* The contours of the frames the model shows the detector.  The targets the
\* calibration frames show are centred near pixel (100, 100).
ContourA == Rect(100, 100, 140, 103)
ContourB == Rect(101, 101, 141, 104)
ContourC == Rect(103, 100, 143, 103)
ContourD == Rect(56, 97, 96, 100)
\* A speck: too small.
ContourSpeck == Rect(100, 100, 105, 102)
\* A round blob: large enough, not elongated.
ContourBlob == Rect(100, 100, 120, 120)
\* A change of lighting over the whole frame.
ContourFlood == Rect(0, 0, 400, 200)

\* A frame for detect_arrows: ok is FALSE for a frame cv2.cvtColor raises on;
\* contours is what cv2.findContours returns for its difference from the
\* reference frame after thresholding and the morphological clean-up.
DetectFrame(contours) == [ok |-> TRUE, contours |-> contours]

BadFrame == [ok |-> FALSE, contours |-> << >>]

DetectFrames ==
    { DetectFrame(<< >>),
      DetectFrame(<< ContourA >>),
      DetectFrame(<< ContourC >>),
      DetectFrame(<< ContourA, ContourB >>),
      DetectFrame(<< ContourSpeck, ContourBlob, ContourB >>),
      DetectFrame(<< ContourFlood, ContourD >>),
      BadFrame }

\* A frame for calibrate: circles is what cv2.HoughCircles returns for it,
\* rounded to integers (x, y, radius); no circle is << >>.
CalFrame(id, circles) == [id |-> id, ok |-> TRUE, circles |-> circles]

BadCalFrame == [id |-> "bad", ok |-> FALSE, circles |-> << >>]

CalFrames ==
    { CalFrame("empty", << >>),
      CalFrame("one", << <<100, 100, 61>> >>),
      CalFrame("two", << <<100, 100, 61>>, <<102, 100, 122>>, <<90, 90, 122>> >>),
      BadCalFrame }

\* ------------------------------------------------------------------------
\* echo_detector.py: the helpers of ArrowDetector
\* ------------------------------------------------------------------------

\* A variant of score_from whose comparison is strict: a distance on a ring
\* line scores the next ring.
RECURSIVE score_from_strict(_, _, _)
score_from_strict(rings, distance_cm, i) ==
    IF i > Len(rings) THEN 0
    ELSE IF 100 * distance_cm.sq
              < (rings[i].radius_mm * distance_cm.den)
                   * (rings[i].radius_mm * distance_cm.den)
         THEN rings[i].score
         ELSE score_from_strict(rings, distance_cm, i + 1)

\* ArrowDetector._calculate_score: the first ring, in list order, with
\* distance_cm <= radius_cm; 0 for none.  distance_cm is sqrt(sq)/den and
\* radius_cm is radius_mm/10.
RECURSIVE score_from(_, _, _)
score_from(rings, distance_cm, i) ==
    IF i > Len(rings) THEN 0
    ELSE IF 100 * distance_cm.sq
              <= (rings[i].radius_mm * distance_cm.den)
                   * (rings[i].radius_mm * distance_cm.den)
         THEN rings[i].score
         ELSE score_from(rings, distance_cm, i + 1)

\* A variant of calculate_score that scores a miss as the outermost ring.
calculate_score_no_miss(target_size, distance_cm) ==
    Max2(score_from(TARGET_SIZES[target_size].rings, distance_cm, 1),
         TARGET_SIZES[target_size].rings[Len(TARGET_SIZES[target_size].rings)].score)

calculate_score(target_size, distance_cm) ==
    score_from(TARGET_SIZES[target_size].rings, distance_cm, 1)

\* A variant of too_close that also takes a distance of exactly
\* MIN_ARROW_DISTANCE_CM as too close.
too_close_or_equal(x_cm, y_cm, arrow) ==
    LET dx == 100 * x_cm.n - arrow.x_cm * x_cm.d
        dy == 100 * y_cm.n - arrow.y_cm * y_cm.d
        lim == 100 * MIN_ARROW_DISTANCE_CM * x_cm.d
    IN  /\ Abs(dx) <= lim
        /\ Abs(dy) <= lim
        /\ dx * dx + dy * dy <= lim * lim

\* dist < MIN_ARROW_DISTANCE_CM for the candidate (x_cm, y_cm), fractions of
\* one denominator, and a stored record, whose x_cm and y_cm are hundredths.
\* In units of 1/(100 * d) cm; an offset of MIN_ARROW_DISTANCE_CM or more on
\* one axis settles it without squaring.  The comparison is made on the
\* values the doubles stand for: the last-place rounding of the division,
\* the squares and np.sqrt is not part of the model.
too_close(x_cm, y_cm, arrow) ==
    LET dx == 100 * x_cm.n - arrow.x_cm * x_cm.d
        dy == 100 * y_cm.n - arrow.y_cm * y_cm.d
        lim == 100 * MIN_ARROW_DISTANCE_CM * x_cm.d
    IN  /\ Abs(dx) < lim
        /\ Abs(dy) < lim
        /\ dx * dx + dy * dy < lim * lim

\* ArrowDetector._is_new_arrow: no record of the session is too close.
is_new_arrow(arrows, x_cm, y_cm) ==
    \A k \in 1..Len(arrows) : ~too_close(x_cm, y_cm, arrows[k])

\* np.argmin of the distances of the contour's points to the centre: the
\* first index of the least distance.
SqDistPx(p, c) == (p[1] - c[1]) * (p[1] - c[1]) + (p[2] - c[2]) * (p[2] - c[2])

tip_idx(contour_points, target_center) ==
    CHOOSE i \in 1..Len(contour_points) :
        /\ \A j \in 1..Len(contour_points) :
              SqDistPx(contour_points[i], target_center)
                 <= SqDistPx(contour_points[j], target_center)
        /\ \A j \in 1..(i - 1) :
              SqDistPx(contour_points[j], target_center)
                 > SqDistPx(contour_points[i], target_center)

\* The angle of a record: degrees of atan2, plus 360 when negative, rounded
\* to one decimal; in tenths of a degree.
angle_deg(dy_px, dx_px) ==
    LET a == Atan2Mdeg(dy_px, dx_px)
    IN  RoundHalfEven(IF a < 0 THEN a + 360000 ELSE a, 100)

\* The filters of the loop body of detect_arrows: the contour is skipped.
area_rejected(contour) ==
    \/ ContourArea2(contour) < 2 * MIN_ARROW_AREA
    \/ ContourArea2(contour) > 2 * MAX_ARROW_AREA

shape_rejected(contour) ==
    LET r == BoundingRect(contour)
    IN  Max2(r.w, r.h) < 2 * Max2(Min2(r.w, r.h), 1)

\* ------------------------------------------------------------------------
\* State
\* ------------------------------------------------------------------------

\* The request threads of the threaded Flask server (app.run(threaded=True)).
Handlers == {"h1", "h2"}

\* The threads api_auto_detect can start with auto_detect_worker as target.
Workers == {"w1", "w2"}

Threads == Handlers \cup Workers

\* ArrowDetector objects live in the heap under these ids; the module-level
\* name `detector` of main.py holds one of them.  Every request thread can
\* hold one more object alive than the global name does; the polling workers
\* run where no request rebinds the name, and so hold only that one.
ObjIds == 1..(Cardinality(Handlers) + 1)

VARIABLES
    now,                \* time.time() and datetime.now(), in ticks
    SAVE_DEBUG_IMAGES,  \* config.SAVE_DEBUG_IMAGES, set before the start
    heap,               \* ObjIds -> an ArrowDetector's fields, or Freed
    detector,           \* main.py's global `detector`: an object id
    pc,                 \* Threads -> where the thread is in its code
    loc,                \* Threads -> the thread's local variables
    requests,           \* how many more requests the clients may send
    auto_detect_active, \* main.py's global of that name
    auto_detect_thread, \* main.py's global of that name: a worker, or None
    auto_detect_event,  \* auto_detect_event.is_set()
    is_initialized      \* camera_manager.is_initialized

\* What the background polling is made of, and the camera's state.
background ==
    <<auto_detect_active, auto_detect_thread, auto_detect_event, is_initialized>>

vars == <<now, SAVE_DEBUG_IMAGES, heap, detector, pc, loc, requests, background>>

\* time.time() at the start of the process.  Only its distance from the
\* initial last_detection_time = 0 matters: it is far more than the cooldown.
StartTime == DETECTION_COOLDOWN

\* Python's None in the calibration fields: no centre, no radius, no scale.
NoCenter == << >>

NoRadius == 0

NoScale == [n |-> 0, d |-> 0]

\* ArrowDetector.__init__.
\* History, kept with the session: whether detect_arrows has read the clock
\* for its cooldown check since the session began, when it last did, and how
\* many candidates that call accepted; and, until its first such call,
\* whether the session began with a reset that came less than
\* DETECTION_COOLDOWN after an acceptance.  History, kept with the object:
\* whether a calibrate call on it has returned success (calibrate_succeeded).
NoCall == [called |-> FALSE, start |-> 0, accepted |-> 0, forgot |-> FALSE]

NewDetector(target_size) ==
    [target_size |-> target_size,
     is_calibrated |-> FALSE,
     reference_frame |-> None,
     target_center |-> NoCenter,
     target_radius |-> NoRadius,
     pixels_per_cm |-> NoScale,
     arrows |-> << >>,
     last_detection_time |-> 0,
     change_frame_count |-> 0,
     last_call |-> NoCall,
     calibrate_succeeded |-> FALSE]

\* A heap cell that holds no object.
Freed == NewDetector("Freed")

\* The locals of a thread that serves no request.
IdleLoc ==
    [handler |-> None,     \* the api_* function being served
     body |-> None,        \* the target_size of the body of POST /api/calibrate
     before |-> Freed,     \* the detector as it was when that request arrived
     self |-> 0,           \* the object of the running method
     frame |-> None,       \* the method's frame argument
     i |-> 0,              \* index into the contours
     new_arrows |-> << >>,
     tmp |-> None,         \* further locals of the running method
     result |-> None,      \* the method's return value
     resp |-> None,        \* the handler's response, once it has one
     held |-> [obj |-> 0, list |-> << >>],
                           \* the list get_all_arrows returned: the one
                           \* self.arrows of object obj is bound to, or, obj
                           \* being 0, a list no object is bound to any more
     pre |-> Freed,        \* the object as it was when the method was called
     start |-> 0]          \* the clock when the method was called, and for
                           \* detect_arrows when it read the clock for its
                           \* cooldown check

\* After initialize_system(): a detector for the default target size, a
\* camera that passed its test, no polling thread.
Init ==
    /\ now = StartTime
    /\ SAVE_DEBUG_IMAGES \in BOOLEAN
    /\ heap = [o \in ObjIds |-> IF o = 1 THEN NewDetector(DEFAULT_TARGET_SIZE)
                                ELSE Freed]
    /\ detector = 1
    /\ pc = [t \in Threads |-> IF t \in Workers THEN "unstarted" ELSE "idle"]
    /\ auto_detect_active = FALSE
    /\ auto_detect_thread = None
    /\ auto_detect_event = FALSE
    /\ is_initialized = TRUE
    /\ loc = [t \in Threads |-> IdleLoc]
    /\ requests = MaxRequests

\* An object nothing refers to any more is freed (reference counting).
Collect(h, d, l) ==
    [o \in ObjIds |-> IF o = d \/ \E t \in Threads : o \in {l[t].self, l[t].held.obj}
                      THEN h[o] ELSE Freed]

Self(t) == heap[loc[t].self]

\* The thread calls a method of object obj: `self` is bound.
Call(t, label, obj, frame) ==
    /\ pc' = [pc EXCEPT ![t] = label]
    /\ loc' = [loc EXCEPT ![t].self = obj, ![t].frame = frame, ![t].i = 0,
                          ![t].new_arrows = << >>, ![t].tmp = None,
                          ![t].result = None,
                          ![t].pre = heap[obj], ![t].start = now]

\* The handler returns its response.
Respond(t, resp) ==
    /\ pc' = [pc EXCEPT ![t] = "done"]
    /\ loc' = [loc EXCEPT ![t].resp = resp]

Goto(t, label) == pc' = [pc EXCEPT ![t] = label]

\* The running method returns result.
Return(t, label, result) ==
    /\ pc' = [pc EXCEPT ![t] = label]
    /\ loc' = [loc EXCEPT ![t].result = result]

\* ------------------------------------------------------------------------
\* The clock
\* ------------------------------------------------------------------------

Tick ==
    /\ now < StartTime + MaxTime
    /\ now' = now + 1
    /\ UNCHANGED <<SAVE_DEBUG_IMAGES, background, heap, detector, pc, loc, requests>>

\* ------------------------------------------------------------------------
\* ArrowDetector.detect_arrows
\* ------------------------------------------------------------------------

\* The contours of a frame that pass both filters.
RECURSIVE Survivors(_, _)
Survivors(contours, i) ==
    IF i > Len(contours) THEN 0
    ELSE (IF area_rejected(contours[i]) \/ shape_rejected(contours[i])
          THEN 0 ELSE 1) + Survivors(contours, i + 1)

\* `if not self.is_calibrated`
da_calib(t) ==
    /\ pc[t] = "da_calib"
    /\ IF ~Self(t).is_calibrated
       THEN Return(t, "da_ret", [success |-> FALSE,
                                 message |-> "Detector not calibrated",
                                 new_arrows |-> << >>])
       ELSE Goto(t, "da_cool") /\ UNCHANGED loc
    /\ UNCHANGED <<now, requests, SAVE_DEBUG_IMAGES, background, heap, detector>>

\* A variant of cooldown_active whose window is one tick shorter.
cooldown_active_shorter(clock, last_detection_time) ==
    clock - last_detection_time < DETECTION_COOLDOWN - 1

\* `time.time() - self.last_detection_time < config.DETECTION_COOLDOWN`
cooldown_active(clock, last_detection_time) ==
    clock - last_detection_time < DETECTION_COOLDOWN

\* `if time.time() - self.last_detection_time < config.DETECTION_COOLDOWN`
da_cool(t) ==
    /\ pc[t] = "da_cool"
    /\ IF cooldown_active(now, Self(t).last_detection_time)
       THEN /\ Goto(t, "da_ret")
            /\ loc' = [loc EXCEPT ![t].start = now,
                                  ![t].result = [success |-> FALSE,
                                                 message |-> "Detection cooldown active",
                                                 new_arrows |-> << >>]]
       ELSE /\ Goto(t, "da_diff")
            /\ loc' = [loc EXCEPT ![t].start = now]
    /\ heap' = [heap EXCEPT ![loc[t].self].last_call =
                                [called |-> TRUE, start |-> now, accepted |-> 0,
                                 forgot |-> FALSE]]
    /\ UNCHANGED <<now, requests, SAVE_DEBUG_IMAGES, background, detector>>

\* A variant of da_diff without the try: the exception of a primitive leaves
\* the method.
da_diff_raising(t) ==
    /\ pc[t] = "da_diff"
    /\ IF ~loc[t].frame.ok
       THEN Return(t, "da_ret", [raised |-> "cv2.error"])
       ELSE /\ Goto(t, "da_loop")
            /\ loc' = [loc EXCEPT ![t].i = 1, ![t].new_arrows = << >>]
    /\ UNCHANGED <<now, requests, SAVE_DEBUG_IMAGES, background, heap, detector>>

\* cvtColor, absdiff against self.reference_frame, threshold, morphology,
\* findContours; an exception of any of them is caught at the end of the
\* method.
da_diff(t) ==
    /\ pc[t] = "da_diff"
    /\ IF ~loc[t].frame.ok
       THEN Return(t, "da_ret", [success |-> FALSE,
                                 message |-> "Detection error",
                                 new_arrows |-> << >>])
       ELSE /\ Goto(t, "da_loop")
            /\ loc' = [loc EXCEPT ![t].i = 1, ![t].new_arrows = << >>]
    /\ UNCHANGED <<now, requests, SAVE_DEBUG_IMAGES, background, heap, detector>>

\* A variant of arrow_id that counts the session only.
arrow_id_of_session(self, new_arrows) == Len(self.arrows) + 1

\* `'id': len(self.arrows) + len(new_arrows) + 1`
arrow_id(self, new_arrows) == Len(self.arrows) + Len(new_arrows) + 1

\* The record the loop body builds for a contour that passed the filters.
arrow_data(self, new_arrows, contour, clock) ==
    LET contour_points == contour
        tip == contour_points[tip_idx(contour_points, self.target_center)]
        dx_px == tip[1] - self.target_center[1]
        dy_px == tip[2] - self.target_center[2]
        \* dx_px / pixels_per_cm
        dx_cm == [n |-> dx_px * self.pixels_per_cm.d, d |-> self.pixels_per_cm.n]
        dy_cm == [n |-> dy_px * self.pixels_per_cm.d, d |-> self.pixels_per_cm.n]
        distance_cm == Hypot(dx_cm, dy_cm)
    IN  [id |-> arrow_id(self, new_arrows),
         x_cm |-> Round2(dx_cm),
         y_cm |-> Round2(dy_cm),
         distance_cm |-> RoundDist2(distance_cm),
         angle_deg |-> angle_deg(dy_px, dx_px),
         score |-> calculate_score(self.target_size, distance_cm),
         timestamp |-> clock,
         pixel_x |-> tip[1],
         pixel_y |-> tip[2]]

\* `if self._is_new_arrow(dx_cm, dy_cm)` for the contour's tip.
accepts(self, contour) ==
    LET tip == contour[tip_idx(contour, self.target_center)]
        dx_px == tip[1] - self.target_center[1]
        dy_px == tip[2] - self.target_center[2]
    IN  is_new_arrow(self.arrows,
                     [n |-> dx_px * self.pixels_per_cm.d, d |-> self.pixels_per_cm.n],
                     [n |-> dy_px * self.pixels_per_cm.d, d |-> self.pixels_per_cm.n])

\* One pass of `for contour in contours`.
da_loop(t) ==
    /\ pc[t] = "da_loop"
    /\ LET contours == loc[t].frame.contours
           i == loc[t].i
       IN  IF i > Len(contours)
           THEN Goto(t, "da_extend") /\ UNCHANGED loc
           ELSE /\ UNCHANGED pc
                /\ IF \/ area_rejected(contours[i])
                      \/ shape_rejected(contours[i])
                      \/ ~accepts(Self(t), contours[i])
                   THEN loc' = [loc EXCEPT ![t].i = i + 1]
                   ELSE loc' = [loc EXCEPT
                           ![t].i = i + 1,
                           ![t].new_arrows =
                               Append(@, arrow_data(Self(t), loc[t].new_arrows,
                                                    contours[i], now))]
    /\ UNCHANGED <<now, requests, SAVE_DEBUG_IMAGES, background, heap, detector>>

\* A variant of da_extend that goes on to set the time whether or not the
\* cycle accepted a candidate.
da_extend_always(t) ==
    /\ pc[t] = "da_extend"
    /\ heap' = [heap EXCEPT ![loc[t].self].arrows = @ \o loc[t].new_arrows,
                            ![loc[t].self].last_call.accepted =
                                Len(loc[t].new_arrows)]
    /\ Goto(t, "da_time")
    /\ UNCHANGED <<now, requests, SAVE_DEBUG_IMAGES, background, detector, loc>>

\* A variant of da_extend that puts the new records before the old ones.
da_extend_prepending(t) ==
    /\ pc[t] = "da_extend"
    /\ IF loc[t].new_arrows # << >>
       THEN /\ heap' = [heap EXCEPT ![loc[t].self].arrows = loc[t].new_arrows \o @,
                                     ![loc[t].self].last_call.accepted =
                                         Len(loc[t].new_arrows)]
            /\ Goto(t, "da_time")
       ELSE /\ Goto(t, "da_result")
            /\ UNCHANGED heap
    /\ UNCHANGED <<now, requests, SAVE_DEBUG_IMAGES, background, detector, loc>>

\* `if new_arrows: self.arrows.extend(new_arrows)`
da_extend(t) ==
    /\ pc[t] = "da_extend"
    /\ IF loc[t].new_arrows # << >>
       THEN /\ heap' = [heap EXCEPT ![loc[t].self].arrows = @ \o loc[t].new_arrows,
                                     ![loc[t].self].last_call.accepted =
                                         Len(loc[t].new_arrows)]
            /\ Goto(t, "da_time")
       ELSE /\ Goto(t, "da_result")
            /\ UNCHANGED heap
    /\ UNCHANGED <<now, requests, SAVE_DEBUG_IMAGES, background, detector, loc>>

\* `self.last_detection_time = time.time()`
da_time(t) ==
    /\ pc[t] = "da_time"
    /\ heap' = [heap EXCEPT ![loc[t].self].last_detection_time = now]
    /\ Goto(t, IF SAVE_DEBUG_IMAGES THEN "da_debug" ELSE "da_result")
    /\ UNCHANGED <<now, requests, SAVE_DEBUG_IMAGES, background, detector, loc>>

\* `self._save_debug_detection(frame, new_arrows)`: it draws and writes a
\* file, and may raise.
da_debug(t) ==
    /\ pc[t] = "da_debug"
    /\ \/ Goto(t, "da_result") /\ UNCHANGED loc
       \/ Return(t, "da_ret", [success |-> FALSE,
                               message |-> "Detection error",
                               new_arrows |-> << >>])
    /\ UNCHANGED <<now, requests, SAVE_DEBUG_IMAGES, background, heap, detector>>

\* The success result, with 'total_arrows': len(self.arrows).
da_result(t) ==
    /\ pc[t] = "da_result"
    /\ Return(t, "da_ret", [success |-> TRUE,
                            message |-> "Found",
                            new_arrows |-> loc[t].new_arrows,
                            total_arrows |-> Len(Self(t).arrows)])
    /\ UNCHANGED <<now, requests, SAVE_DEBUG_IMAGES, background, heap, detector>>

\* ------------------------------------------------------------------------
\* ArrowDetector.reset
\* ------------------------------------------------------------------------

\* `self.arrows = []`: the attribute is bound to a new list.  A thread that
\* holds the old list (from get_all_arrows) keeps it as it is now.
rs_arrows(t) ==
    /\ pc[t] = "rs_arrows"
    /\ heap' = [heap EXCEPT ![loc[t].self].arrows = << >>,
                            ![loc[t].self].last_call =
                                [NoCall EXCEPT !.forgot =
                                    now - Self(t).last_detection_time
                                       < DETECTION_COOLDOWN]]
    /\ Goto(t, "rs_time")
    /\ loc' = [u \in Threads |->
                 IF loc[u].held.obj = loc[t].self
                 THEN [loc[u] EXCEPT !.held = [obj |-> 0, list |-> Self(t).arrows]]
                 ELSE loc[u]]
    /\ UNCHANGED <<now, requests, SAVE_DEBUG_IMAGES, background, detector>>

\* A variant of rs_time that also drops the calibration flag.
rs_time_uncalibrating(t) ==
    /\ pc[t] = "rs_time"
    /\ heap' = [heap EXCEPT ![loc[t].self].last_detection_time = 0,
                            ![loc[t].self].is_calibrated = FALSE]
    /\ Goto(t, "rs_ret")
    /\ UNCHANGED <<now, requests, SAVE_DEBUG_IMAGES, background, detector, loc>>

\* A variant of rs_time that leaves last_detection_time as it is.
rs_time_keeping(t) ==
    /\ pc[t] = "rs_time"
    /\ Goto(t, "rs_ret")
    /\ UNCHANGED <<now, requests, SAVE_DEBUG_IMAGES, background, heap, detector, loc>>

\* `self.last_detection_time = 0`
rs_time(t) ==
    /\ pc[t] = "rs_time"
    /\ heap' = [heap EXCEPT ![loc[t].self].last_detection_time = 0]
    /\ Goto(t, "rs_ret")
    /\ UNCHANGED <<now, requests, SAVE_DEBUG_IMAGES, background, detector, loc>>

\* ------------------------------------------------------------------------
\* ArrowDetector.calibrate
\* ------------------------------------------------------------------------

\* max(circles, key=lambda c: c[2]): the first circle of the largest radius.
largest_circle(circles) ==
    circles[CHOOSE i \in 1..Len(circles) :
               /\ \A j \in 1..Len(circles) : circles[j][3] <= circles[i][3]
               /\ \A j \in 1..(i - 1) : circles[j][3] < circles[i][3]]

cal_error == [success |-> FALSE, message |-> "Calibration error", circles_found |-> 0]

\* cvtColor, GaussianBlur, HoughCircles; `if circles is None or
\* len(circles[0]) == 0`; the largest circle and pixels_per_cm.
cal_hough(t) ==
    /\ pc[t] = "cal_hough"
    /\ IF ~loc[t].frame.ok
       THEN Return(t, "cal_ret", cal_error)
       ELSE IF loc[t].frame.circles = << >>
       THEN Return(t, "cal_ret", [success |-> FALSE,
                                  message |-> "No target detected",
                                  circles_found |-> 0])
       ELSE LET c == largest_circle(loc[t].frame.circles)
                target_diameter_cm == TARGET_SIZES[Self(t).target_size].diameter
            IN  /\ Goto(t, "cal_center")
                /\ loc' = [loc EXCEPT ![t].tmp =
                             [center_x |-> c[1], center_y |-> c[2], radius |-> c[3],
                              pixels_per_cm |-> Frac(c[3] * 2, target_diameter_cm)]]
    /\ UNCHANGED <<now, requests, SAVE_DEBUG_IMAGES, background, heap, detector>>

\* `self.target_center = (center_x, center_y)`
cal_center(t) ==
    /\ pc[t] = "cal_center"
    /\ heap' = [heap EXCEPT ![loc[t].self].target_center =
                                <<loc[t].tmp.center_x, loc[t].tmp.center_y>>]
    /\ Goto(t, "cal_radius")
    /\ UNCHANGED <<now, requests, SAVE_DEBUG_IMAGES, background, detector, loc>>

\* `self.target_radius = radius`
cal_radius(t) ==
    /\ pc[t] = "cal_radius"
    /\ heap' = [heap EXCEPT ![loc[t].self].target_radius = loc[t].tmp.radius]
    /\ Goto(t, "cal_ppc")
    /\ UNCHANGED <<now, requests, SAVE_DEBUG_IMAGES, background, detector, loc>>

\* `self.pixels_per_cm = pixels_per_cm`
cal_ppc(t) ==
    /\ pc[t] = "cal_ppc"
    /\ heap' = [heap EXCEPT ![loc[t].self].pixels_per_cm = loc[t].tmp.pixels_per_cm]
    /\ Goto(t, "cal_ref")
    /\ UNCHANGED <<now, requests, SAVE_DEBUG_IMAGES, background, detector, loc>>

\* `self.reference_frame = gray.copy()`
cal_ref(t) ==
    /\ pc[t] = "cal_ref"
    /\ heap' = [heap EXCEPT ![loc[t].self].reference_frame = loc[t].frame.id]
    /\ Goto(t, "cal_flag")
    /\ UNCHANGED <<now, requests, SAVE_DEBUG_IMAGES, background, detector, loc>>

\* `self.is_calibrated = True`
cal_flag(t) ==
    /\ pc[t] = "cal_flag"
    /\ heap' = [heap EXCEPT ![loc[t].self].is_calibrated = TRUE]
    /\ Goto(t, IF SAVE_DEBUG_IMAGES THEN "cal_debug" ELSE "cal_result")
    /\ UNCHANGED <<now, requests, SAVE_DEBUG_IMAGES, background, detector, loc>>

\* A variant of cal_debug whose failure also drops the calibration flag.
cal_debug_uncalibrating(t) ==
    /\ pc[t] = "cal_debug"
    /\ \/ Goto(t, "cal_result") /\ UNCHANGED <<loc, heap>>
       \/ /\ Return(t, "cal_ret", cal_error)
          /\ heap' = [heap EXCEPT ![loc[t].self].is_calibrated = FALSE]
    /\ UNCHANGED <<now, requests, SAVE_DEBUG_IMAGES, background, detector>>

\* The debug image: frame.copy(), two cv2.circle, cv2.imwrite; it may raise.
cal_debug(t) ==
    /\ pc[t] = "cal_debug"
    /\ \/ Goto(t, "cal_result") /\ UNCHANGED loc
       \/ Return(t, "cal_ret", cal_error)
    /\ UNCHANGED <<now, requests, SAVE_DEBUG_IMAGES, background, heap, detector>>

\* The success result.
cal_result(t) ==
    /\ pc[t] = "cal_result"
    /\ Return(t, "cal_ret",
              [success |-> TRUE,
               message |-> "Calibration successful",
               center |-> <<loc[t].tmp.center_x, loc[t].tmp.center_y>>,
               radius |-> loc[t].tmp.radius,
               pixels_per_cm |-> loc[t].tmp.pixels_per_cm,
               circles_found |-> Len(loc[t].frame.circles),
               target_size |-> Self(t).target_size])
    /\ heap' = [heap EXCEPT ![loc[t].self].calibrate_succeeded = TRUE]
    /\ UNCHANGED <<now, requests, SAVE_DEBUG_IMAGES, background, detector>>

\* ------------------------------------------------------------------------
\* ArrowDetector.get_statistics, get_all_arrows, get_status
\* ------------------------------------------------------------------------

\* An arrow or None, for best_arrow and worst_arrow.
NoArrow == << >>

Some(a) == << a >>

RECURSIVE SumSeq(_, _)
SumSeq(seq, i) == IF i > Len(seq) THEN 0 ELSE seq[i] + SumSeq(seq, i + 1)

\* min(arrows, key=lambda a: a['distance_cm']): the first of the least.
min_by_distance(arrows) ==
    arrows[CHOOSE i \in 1..Len(arrows) :
              /\ \A j \in 1..Len(arrows) : arrows[i].distance_cm <= arrows[j].distance_cm
              /\ \A j \in 1..(i - 1) : arrows[j].distance_cm > arrows[i].distance_cm]

\* A variant of max_by_distance that takes the last of the greatest.
max_by_distance_last(arrows) ==
    arrows[CHOOSE i \in 1..Len(arrows) :
              /\ \A j \in 1..Len(arrows) : arrows[i].distance_cm >= arrows[j].distance_cm
              /\ \A j \in (i + 1)..Len(arrows) : arrows[j].distance_cm < arrows[i].distance_cm]

\* max(arrows, key=lambda a: a['distance_cm']): the first of the greatest.
max_by_distance(arrows) ==
    arrows[CHOOSE i \in 1..Len(arrows) :
              /\ \A j \in 1..Len(arrows) : arrows[i].distance_cm >= arrows[j].distance_cm
              /\ \A j \in 1..(i - 1) : arrows[j].distance_cm < arrows[i].distance_cm]

\* round(np.mean(values), 2) in hundredths, the values being in units of
\* unit hundredths.  np.mean of an empty list is nan (with a warning).
NaN == -1

mean2(values, unit) ==
    IF Len(values) = 0 THEN NaN
    ELSE RoundHalfEven(unit * SumSeq(values, 1), Len(values))

\* The result for an empty session; it has no 'worst_arrow' key.
empty_statistics ==
    [total_arrows |-> 0, total_score |-> 0, average_score |-> 0,
     average_distance |-> 0, best_arrow |-> NoArrow]

\* min() and max() of an empty sequence raise ValueError, which
\* get_statistics does not catch.
value_error == [raised |-> "ValueError"]

\* A variant of gs_check that counts its calls in the object.
gs_check_counting(t) ==
    /\ pc[t] = "gs_check"
    /\ IF Self(t).arrows = << >>
       THEN Return(t, "gs_ret", empty_statistics)
       ELSE Goto(t, "gs_distances") /\ UNCHANGED loc
    /\ heap' = [heap EXCEPT ![loc[t].self].change_frame_count = 1 - @]
    /\ UNCHANGED <<now, requests, SAVE_DEBUG_IMAGES, background, detector>>

\* `if not self.arrows`
gs_check(t) ==
    /\ pc[t] = "gs_check"
    /\ IF Self(t).arrows = << >>
       THEN Return(t, "gs_ret", empty_statistics)
       ELSE Goto(t, "gs_distances") /\ UNCHANGED loc
    /\ UNCHANGED <<now, requests, SAVE_DEBUG_IMAGES, background, heap, detector>>

\* `distances = [a['distance_cm'] for a in self.arrows]`
gs_distances(t) ==
    /\ pc[t] = "gs_distances"
    /\ Goto(t, "gs_scores")
    /\ loc' = [loc EXCEPT ![t].tmp =
                 [distances |-> [k \in 1..Len(Self(t).arrows) |-> Self(t).arrows[k].distance_cm]]]
    /\ UNCHANGED <<now, requests, SAVE_DEBUG_IMAGES, background, heap, detector>>

\* `scores = [a['score'] for a in self.arrows]`
gs_scores(t) ==
    /\ pc[t] = "gs_scores"
    /\ Goto(t, "gs_best")
    /\ loc' = [loc EXCEPT ![t].tmp =
                 [distances |-> loc[t].tmp.distances,
                  scores |-> [k \in 1..Len(Self(t).arrows) |-> Self(t).arrows[k].score]]]
    /\ UNCHANGED <<now, requests, SAVE_DEBUG_IMAGES, background, heap, detector>>

\* `best_arrow = min(self.arrows, key=...)`
gs_best(t) ==
    /\ pc[t] = "gs_best"
    /\ IF Self(t).arrows = << >>
       THEN Return(t, "gs_ret", value_error)
       ELSE /\ Goto(t, "gs_total")
            /\ loc' = [loc EXCEPT ![t].tmp =
                         [distances |-> loc[t].tmp.distances,
                          scores |-> loc[t].tmp.scores,
                          best_arrow |-> min_by_distance(Self(t).arrows)]]
    /\ UNCHANGED <<now, requests, SAVE_DEBUG_IMAGES, background, heap, detector>>

\* `'total_arrows': len(self.arrows)`, the first entry of the result.
gs_total(t) ==
    /\ pc[t] = "gs_total"
    /\ Goto(t, "gs_worst")
    /\ loc' = [loc EXCEPT ![t].tmp =
                 [distances |-> loc[t].tmp.distances,
                  scores |-> loc[t].tmp.scores,
                  best_arrow |-> loc[t].tmp.best_arrow,
                  total_arrows |-> Len(Self(t).arrows)]]
    /\ UNCHANGED <<now, requests, SAVE_DEBUG_IMAGES, background, heap, detector>>

\* The sums and means of the two lists; then
\* `'worst_arrow': max(self.arrows, key=...)`, the last entry.
gs_worst(t) ==
    /\ pc[t] = "gs_worst"
    /\ IF Self(t).arrows = << >>
       THEN Return(t, "gs_ret", value_error)
       ELSE LET scores == loc[t].tmp.scores
                distances == loc[t].tmp.distances
            IN  Return(t, "gs_ret",
                   [total_arrows |-> loc[t].tmp.total_arrows,
                    total_score |-> SumSeq(scores, 1),
                    average_score |-> mean2(scores, 100),
                    average_distance |-> mean2(distances, 1),
                    best_arrow |-> Some(loc[t].tmp.best_arrow),
                    worst_arrow |-> Some(max_by_distance(Self(t).arrows))])
    /\ UNCHANGED <<now, requests, SAVE_DEBUG_IMAGES, background, heap, detector>>

\* ArrowDetector.get_status.
get_status(self) ==
    [calibrated |-> self.is_calibrated,
     target_size |-> self.target_size,
     arrows_detected |-> Len(self.arrows),
     target_center |-> self.target_center,
     target_radius |-> self.target_radius,
     pixels_per_cm |-> self.pixels_per_cm]

\* ------------------------------------------------------------------------
\* main.py: the request handlers
\* ------------------------------------------------------------------------

\* A client sends a request, after which the clients may send `left` more.
Admit(left) ==
    /\ left >= 0
    /\ requests' = left

\* What a POST /api/calibrate body can name as target_size; None: no such key.
BodyTargetSizes == {None, "80cm", "122cm", "60cm"}

\* A variant of differs that is always true.
differs_always(target_size, current) == TRUE

\* `target_size != detector.target_size`
differs(target_size, current) == target_size # current

\* A variant of ApiCalibrate that binds the global name to a detector of the
\* default size before it answers a request for an unknown size.
ApiCalibrate_rebinding(t, body, left) ==
    /\ pc[t] = "idle"
    /\ Admit(left)
    /\ LET target_size == IF body = None THEN DEFAULT_TARGET_SIZE ELSE body
           request == [loc[t] EXCEPT !.handler = "api_calibrate",
                                     !.body = body,
                                     !.before = heap[detector]]
       IN  IF differs(target_size, heap[detector].target_size)
           THEN IF target_size \notin DOMAIN TARGET_SIZES
                THEN /\ pc' = [pc EXCEPT ![t] = "done"]
                     /\ loc' = [loc EXCEPT ![t] =
                                  [request EXCEPT !.resp = [success |-> FALSE,
                                                            status |-> 500]]]
                     /\ heap' = [heap EXCEPT ![detector] =
                                    NewDetector(DEFAULT_TARGET_SIZE)]
                ELSE /\ pc' = [pc EXCEPT ![t] = "ac_swap"]
                     /\ loc' = [loc EXCEPT ![t] =
                                  [request EXCEPT !.tmp = target_size]]
                     /\ UNCHANGED heap
           ELSE /\ pc' = [pc EXCEPT ![t] = "ac_capture"]
                /\ loc' = [loc EXCEPT ![t] = request]
                /\ UNCHANGED heap
    /\ UNCHANGED <<now, SAVE_DEBUG_IMAGES, background, detector>>

\* api_calibrate up to `if target_size != detector.target_size`.  (The
\* `global detector` statement stands inside the `if`, after the name's
\* first use: Python before 3.6 warns and binds the name for the whole
\* function, which is the reading taken here; Python 3.6 and later reject the
\* module with a SyntaxError.)  ArrowDetector(target_size) raises KeyError for a
\* size that is no key of TARGET_SIZES, which the handler's except turns into
\* a 500 response.
ApiCalibrate(t, body, left) ==
    /\ pc[t] = "idle"
    /\ Admit(left)
    /\ LET target_size == IF body = None THEN DEFAULT_TARGET_SIZE ELSE body
           request == [loc[t] EXCEPT !.handler = "api_calibrate",
                                     !.body = body,
                                     !.before = heap[detector]]
       IN  IF differs(target_size, heap[detector].target_size)
           THEN IF target_size \notin DOMAIN TARGET_SIZES
                THEN /\ pc' = [pc EXCEPT ![t] = "done"]
                     /\ loc' = [loc EXCEPT ![t] =
                                  [request EXCEPT !.resp = [success |-> FALSE,
                                                            status |-> 500]]]
                ELSE /\ pc' = [pc EXCEPT ![t] = "ac_swap"]
                     /\ loc' = [loc EXCEPT ![t] =
                                  [request EXCEPT !.tmp = target_size]]
           ELSE /\ pc' = [pc EXCEPT ![t] = "ac_capture"]
                /\ loc' = [loc EXCEPT ![t] = request]
    /\ UNCHANGED <<now, SAVE_DEBUG_IMAGES, background, heap, detector>>

\* `detector = ArrowDetector(target_size=target_size)`: the global name is
\* bound to a new object.  The old object lives on while a running method
\* has it as self, and is freed otherwise; the new object then takes its
\* place in the heap.
ac_swap(t) ==
    /\ pc[t] = "ac_swap"
    /\ LET held == \E u \in Threads : detector \in {loc[u].self, loc[u].held.obj}
           new == IF held THEN CHOOSE o \in ObjIds :
                                  /\ heap[o] = Freed
                                  /\ \A o2 \in ObjIds : heap[o2] = Freed => o <= o2
                  ELSE detector
       IN  /\ detector' = new
           /\ heap' = [heap EXCEPT ![new] = NewDetector(loc[t].tmp)]
    /\ Goto(t, "ac_capture")
    /\ loc' = [loc EXCEPT ![t].tmp = None]
    /\ UNCHANGED <<now, requests, SAVE_DEBUG_IMAGES, background>>

\* `frame = camera_manager.capture_multiple_frames(...)` returns None, every
\* capture having failed: `if frame is None`.
ac_capture_fail(t) ==
    /\ pc[t] = "ac_capture"
    /\ Respond(t, [success |-> FALSE, status |-> 500])
    /\ UNCHANGED <<now, requests, SAVE_DEBUG_IMAGES, background, heap, detector>>

\* It returns a frame: `detector.calibrate(frame)`.
ac_capture(t, frame) ==
    /\ pc[t] = "ac_capture"
    /\ is_initialized
    /\ Call(t, "cal_hough", detector, frame)
    /\ UNCHANGED <<now, requests, SAVE_DEBUG_IMAGES, background, heap, detector>>

\* `return jsonify(result)`
cal_ret(t) ==
    /\ pc[t] = "cal_ret"
    /\ Respond(t, loc[t].result)
    /\ UNCHANGED <<now, requests, SAVE_DEBUG_IMAGES, background, heap, detector>>

\* api_detect up to `if not detector.is_calibrated`.
ApiDetect(t, left) ==
    /\ pc[t] = "idle"
    /\ Admit(left)
    /\ IF ~heap[detector].is_calibrated
       THEN /\ pc' = [pc EXCEPT ![t] = "done"]
            /\ loc' = [loc EXCEPT ![t].handler = "api_detect",
                                  ![t].resp = [success |-> FALSE, status |-> 400]]
       ELSE /\ pc' = [pc EXCEPT ![t] = "ad_capture"]
            /\ loc' = [loc EXCEPT ![t].handler = "api_detect"]
    /\ UNCHANGED <<now, SAVE_DEBUG_IMAGES, background, heap, detector>>

\* `frame = camera_manager.capture_frame()` returns None, the capture having
\* failed: `if frame is None`.
ad_capture_fail(t) ==
    /\ pc[t] = "ad_capture"
    /\ Respond(t, [success |-> FALSE, status |-> 500])
    /\ UNCHANGED <<now, requests, SAVE_DEBUG_IMAGES, background, heap, detector>>

\* It returns a frame: `detector.detect_arrows(frame)`.
ad_capture(t, frame) ==
    /\ pc[t] = "ad_capture"
    /\ is_initialized
    /\ Len(heap[detector].arrows) + Survivors(frame.contours, 1) <= MaxArrows
    /\ Call(t, "da_calib", detector, frame)
    /\ UNCHANGED <<now, requests, SAVE_DEBUG_IMAGES, background, heap, detector>>

\* `return jsonify(result)`
da_ret(t) ==
    /\ pc[t] = "da_ret"
    /\ Respond(t, loc[t].result)
    /\ UNCHANGED <<now, requests, SAVE_DEBUG_IMAGES, background, heap, detector>>

\* api_reset: `detector.reset()`.
ApiReset(t, left) ==
    /\ pc[t] = "idle"
    /\ Admit(left)
    /\ Call(t, "rs_arrows", detector, None)
    /\ UNCHANGED <<now, SAVE_DEBUG_IMAGES, background, heap, detector>>

rs_ret(t) ==
    /\ pc[t] = "rs_ret"
    /\ Respond(t, [success |-> TRUE, message |-> "All arrows reset"])
    /\ UNCHANGED <<now, requests, SAVE_DEBUG_IMAGES, background, heap, detector>>

\* api_status: `'detector': detector.get_status()`.
ApiStatus(t, left) ==
    /\ pc[t] = "idle"
    /\ Admit(left)
    /\ pc' = [pc EXCEPT ![t] = "as_statistics"]
    /\ loc' = [loc EXCEPT ![t].handler = "api_status",
                          ![t].resp = [detector |-> get_status(heap[detector])]]
    /\ UNCHANGED <<now, SAVE_DEBUG_IMAGES, background, heap, detector>>

\* `if detector: status['statistics'] = detector.get_statistics()`
as_statistics(t) ==
    /\ pc[t] = "as_statistics"
    /\ pc' = [pc EXCEPT ![t] = "gs_check"]
    /\ loc' = [loc EXCEPT ![t].self = detector, ![t].pre = heap[detector],
                          ![t].start = now]
    /\ UNCHANGED <<now, requests, SAVE_DEBUG_IMAGES, background, heap, detector>>

\* api_arrows: `arrows = detector.get_all_arrows()`, which returns the list
\* self.arrows itself, not a copy.
ApiArrows(t, left) ==
    /\ pc[t] = "idle"
    /\ Admit(left)
    /\ pc' = [pc EXCEPT ![t] = "aa_statistics"]
    /\ loc' = [loc EXCEPT ![t].handler = "api_arrows",
                          ![t].held = [obj |-> detector, list |-> << >>]]
    /\ UNCHANGED <<now, SAVE_DEBUG_IMAGES, background, heap, detector>>

\* `stats = detector.get_statistics()`
aa_statistics(t) ==
    /\ pc[t] = "aa_statistics"
    /\ pc' = [pc EXCEPT ![t] = "gs_check"]
    /\ loc' = [loc EXCEPT ![t].self = detector, ![t].pre = heap[detector],
                          ![t].start = now]
    /\ UNCHANGED <<now, requests, SAVE_DEBUG_IMAGES, background, heap, detector>>

\* The list a thread holds, as it is now.
HeldList(t) ==
    IF loc[t].held.obj = 0 THEN loc[t].held.list ELSE heap[loc[t].held.obj].arrows

\* get_statistics returns to its caller, which builds its response:
\* api_status adds the statistics to the status, api_arrows serialises the
\* list it holds and the statistics.  Neither catches the ValueError: the
\* request ends in a 500 response.
gs_ret(t) ==
    /\ pc[t] = "gs_ret"
    /\ IF "raised" \in DOMAIN loc[t].result
       THEN Respond(t, [success |-> FALSE, status |-> 500])
       ELSE IF loc[t].handler = "api_status"
       THEN Respond(t, [detector |-> loc[t].resp.detector,
                        statistics |-> loc[t].result])
       ELSE Respond(t, [success |-> TRUE,
                        arrows |-> HeldList(t),
                        statistics |-> loc[t].result])
    /\ UNCHANGED <<now, requests, SAVE_DEBUG_IMAGES, background, heap, detector>>

\* The response is sent; the thread's references are dropped.
Finish(t) ==
    /\ pc[t] = "done"
    /\ pc' = [pc EXCEPT ![t] = "idle"]
    /\ loc' = [loc EXCEPT ![t] = IdleLoc]
    /\ heap' = Collect(heap, detector, loc')
    /\ UNCHANGED <<now, requests, SAVE_DEBUG_IMAGES, background, detector>>

\* ------------------------------------------------------------------------
\* The specifications
\* ------------------------------------------------------------------------

\* A request arrives.
Request(t, bodies, left) ==
    \/ \E body \in bodies : ApiCalibrate(t, body, left)
    \/ ApiDetect(t, left)
    \/ ApiReset(t, left)
    \/ ApiStatus(t, left)
    \/ ApiArrows(t, left)

\* A thread that serves a request takes its next step; the camera delivers
\* one of the given frames.
Step(t, calFrames, detectFrames) ==
    \/ ac_swap(t)
    \/ ac_capture_fail(t)
    \/ \E frame \in calFrames : ac_capture(t, frame)
    \/ cal_hough(t)
    \/ cal_center(t)
    \/ cal_radius(t)
    \/ cal_ppc(t)
    \/ cal_ref(t)
    \/ cal_flag(t)
    \/ cal_debug(t)
    \/ cal_result(t)
    \/ cal_ret(t)
    \/ ad_capture_fail(t)
    \/ \E frame \in detectFrames : ad_capture(t, frame)
    \/ da_calib(t)
    \/ da_cool(t)
    \/ da_diff(t)
    \/ da_loop(t)
    \/ da_extend(t)
    \/ da_time(t)
    \/ da_debug(t)
    \/ da_result(t)
    \/ da_ret(t)
    \/ rs_arrows(t)
    \/ rs_time(t)
    \/ rs_ret(t)
    \/ as_statistics(t)
    \/ aa_statistics(t)
    \/ gs_check(t)
    \/ gs_distances(t)
    \/ gs_scores(t)
    \/ gs_best(t)
    \/ gs_total(t)
    \/ gs_worst(t)
    \/ gs_ret(t)
    \/ Finish(t)

\* The requests one after the other, each served to its end before the next
\* starts, and as many of them as the clients like.
SerialThread == "h1"

Next ==
    \/ Tick
    \/ Request(SerialThread, BodyTargetSizes, requests)
    \/ Step(SerialThread, CalFrames, DetectFrames)

Spec == Init /\ [][Next]_vars


\* ------------------------------------------------------------------------
\* The claims of the serial server
\* ------------------------------------------------------------------------

\* The squared distance of two records in (x_cm, y_cm), in hundredths of a cm.
SqDistCm(a, b) ==
    (a.x_cm - b.x_cm) * (a.x_cm - b.x_cm) + (a.y_cm - b.y_cm) * (a.y_cm - b.y_cm)

\* C1: any two distinct records of a session are at least
\* MIN_ARROW_DISTANCE_CM apart in (x_cm, y_cm), two records accepted in one
\* detect_arrows cycle included.
C1_DedupInvariant ==
    \A o \in ObjIds : \A i, j \in 1..Len(heap[o].arrows) :
        i < j => SqDistCm(heap[o].arrows[i], heap[o].arrows[j])
                    >= (100 * MIN_ARROW_DISTANCE_CM) * (100 * MIN_ARROW_DISTANCE_CM)

\* A detect_arrows call on a calibrated detector has returned, and an earlier
\* call on the same session, with no reset or reconfigure since, read the
\* clock for its cooldown check less than DETECTION_COOLDOWN before this one
\* did.
SecondOfTwoDetects(t) ==
    /\ pc[t] = "da_ret"
    /\ loc[t].pre.is_calibrated
    /\ loc[t].pre.last_call.called
    /\ loc[t].start - loc[t].pre.last_call.start < DETECTION_COOLDOWN

\* The call returned the cooldown failure and the session has as many records
\* as before it.
Gated(t) ==
    /\ ~loc[t].result.success
    /\ loc[t].result.message = "Detection cooldown active"
    /\ Len(Self(t).arrows) = Len(loc[t].pre.arrows)

C4_IdInvariant ==
    \A o \in ObjIds : \A i \in 1..Len(heap[o].arrows) : heap[o].arrows[i].id = i

\* One detect_arrows cycle has accepted two candidates.
C4_Witness ==
    /\ pc[SerialThread] = "da_ret"
    /\ loc[SerialThread].result.success
    /\ Len(loc[SerialThread].result.new_arrows) = 2
    /\ Len(Self(SerialThread).arrows) = Len(loc[SerialThread].pre.arrows) + 2

\* C5: a detect_arrows call that returns success=false leaves self.arrows and
\* last_detection_time as they were before the call.
C5_FailedDetectKeepsSession ==
    \A t \in Threads :
        pc[t] = "da_ret" /\ ~loc[t].result.success
        => /\ Self(t).arrows = loc[t].pre.arrows
           /\ Self(t).last_detection_time = loc[t].pre.last_detection_time

\* The calibration of a detector.
Calibration(self) ==
    [is_calibrated |-> self.is_calibrated,
     target_center |-> self.target_center,
     target_radius |-> self.target_radius,
     pixels_per_cm |-> self.pixels_per_cm,
     reference_frame |-> self.reference_frame]

\* C6: a calibrate call that returns success=false leaves is_calibrated,
\* target_center, target_radius, pixels_per_cm and reference_frame as they
\* were before the call.
C6_FailedCalibrateKeepsCalibration ==
    \A t \in Threads :
        pc[t] = "cal_ret" /\ ~loc[t].result.success
        => Calibration(Self(t)) = Calibration(loc[t].pre)

\* C7: after reset the arrow sequence is empty and get_status() counts 0
\* arrows, while the calibration and the target profile are as before.
C7_Reset ==
    \A t \in Threads :
        pc[t] = "rs_ret"
        => /\ Self(t).arrows = << >>
           /\ get_status(Self(t)).arrows_detected = 0
           /\ Calibration(Self(t)) = Calibration(loc[t].pre)
           /\ Self(t).target_size = loc[t].pre.target_size
           /\ get_status(Self(t)).calibrated = loc[t].pre.is_calibrated

\* reset has returned on a calibrated detector that had arrows.
C7_Witness ==
    /\ pc[SerialThread] = "rs_ret"
    /\ loc[SerialThread].pre.is_calibrated
    /\ loc[SerialThread].pre.arrows # << >>
    /\ get_status(Self(SerialThread)).calibrated

\* calibrate has returned success for an api_calibrate request that arrived
\* at a calibrated detector.
Recalibrated(t) ==
    /\ pc[t] = "cal_ret"
    /\ loc[t].handler = "api_calibrate"
    /\ loc[t].result.success
    /\ loc[t].before.is_calibrated

\* The session of the detector is the one the request found.
SessionUntouched(t) ==
    /\ heap[detector].arrows = loc[t].before.arrows
    /\ heap[detector].last_detection_time = loc[t].before.last_detection_time

\* The calibration of the detector is the one the call has returned.
CalibrationReplaced(t) ==
    /\ heap[detector].is_calibrated
    /\ heap[detector].target_center = loc[t].result.center
    /\ heap[detector].target_radius = loc[t].result.radius
    /\ heap[detector].pixels_per_cm = loc[t].result.pixels_per_cm

\* C8, as stated: a successful calibrate on a calibrated detector replaces
\* the calibration and leaves the session untouched, for every api_calibrate
\* request that names no target size other than the detector's, a request
\* that names none included.
C8_SessionUntouchedUnlessOtherSize ==
    \A t \in Threads :
        /\ Recalibrated(t)
        /\ loc[t].body \in {None, loc[t].before.target_size}
        => CalibrationReplaced(t) /\ SessionUntouched(t)

\* C8, amended: the same, for every request whose target size, which is
\* DEFAULT_TARGET_SIZE when the body names none, is the detector's.
C8_SessionUntouchedForSameSize ==
    \A t \in Threads :
        /\ Recalibrated(t)
        /\ (IF loc[t].body = None THEN DEFAULT_TARGET_SIZE ELSE loc[t].body)
              = loc[t].before.target_size
        => CalibrationReplaced(t) /\ SessionUntouched(t)

\* A request that names no size has recalibrated a detector with arrows to
\* another centre.
C8_Witness ==
    /\ Recalibrated(SerialThread)
    /\ loc[SerialThread].body = None
    /\ loc[SerialThread].before.target_size = DEFAULT_TARGET_SIZE
    /\ loc[SerialThread].before.arrows # << >>
    /\ loc[SerialThread].before.target_center # heap[detector].target_center
    /\ SessionUntouched(SerialThread)

\* The contour at position i of the call's frame passed the area filter and
\* the shape filter.
Survives(t, i) ==
    /\ ~area_rejected(loc[t].frame.contours[i])
    /\ ~shape_rejected(loc[t].frame.contours[i])

\* The tip of that contour: the pixel the candidate stands for.
TipOf(t, i) ==
    loc[t].frame.contours[i][tip_idx(loc[t].frame.contours[i],
                                     loc[t].pre.target_center)]

\* The records the call appended to the session.
Appended(t) ==
    SubSeq(Self(t).arrows, Len(loc[t].pre.arrows) + 1, Len(Self(t).arrows))

\* The candidate of contour i is at least MIN_ARROW_DISTANCE_CM from the
\* record: with the pixel offset (dx_px, dy_px) of its tip and the scale
\* pixels_per_cm = n/d, its cm position is (dx_px * d / n, dy_px * d / n); the
\* record's is in hundredths.  Everything is scaled by 100 * n.
FarEnough(t, i, record) ==
    LET ppc == loc[t].pre.pixels_per_cm
        c == loc[t].pre.target_center
        ex == 100 * (TipOf(t, i)[1] - c[1]) * ppc.d - record.x_cm * ppc.n
        ey == 100 * (TipOf(t, i)[2] - c[2]) * ppc.d - record.y_cm * ppc.n
        min == 100 * MIN_ARROW_DISTANCE_CM * ppc.n
    IN  \/ Abs(ex) >= min
        \/ Abs(ey) >= min
        \/ ex * ex + ey * ey >= min * min

\* A detect_arrows call has returned after looking at its frame's contours.
Examined(t) ==
    /\ pc[t] = "da_ret"
    /\ loc[t].result.message \notin {"Detector not calibrated",
                                     "Detection cooldown active"}

C12_TimeChangesIffAccepted ==
    \A t \in Threads :
        pc[t] = "da_ret"
        => /\ (Self(t).last_detection_time # loc[t].pre.last_detection_time
               <=> Len(Appended(t)) >= 1)
           /\ (Len(Appended(t)) >= 1
               => /\ Self(t).last_detection_time >= loc[t].start
                  /\ Self(t).last_detection_time <= now)

\* A successful cycle on a session with a record looked at a surviving
\* candidate, accepted nothing, and left the time of the earlier acceptance.
C12_Witness ==
    /\ Examined(SerialThread)
    /\ loc[SerialThread].result.success
    /\ loc[SerialThread].result.new_arrows = << >>
    /\ \E i \in 1..Len(loc[SerialThread].frame.contours) : Survives(SerialThread, i)
    /\ loc[SerialThread].pre.arrows # << >>
    /\ loc[SerialThread].pre.last_detection_time > 0
    /\ Self(SerialThread).last_detection_time
          = loc[SerialThread].pre.last_detection_time

\* C14: get_statistics on a session with no arrows returns count 0, total
\* score 0, average score 0, average distance 0, and has both the best arrow
\* and the worst arrow in its result, as null.
C14_EmptyStatistics ==
    \A t \in Threads :
        pc[t] = "gs_ret" /\ loc[t].pre.arrows = << >>
        => /\ DOMAIN loc[t].result
                 = {"total_arrows", "total_score", "average_score",
                    "average_distance", "best_arrow", "worst_arrow"}
           /\ loc[t].result.total_arrows = 0
           /\ loc[t].result.total_score = 0
           /\ loc[t].result.average_score = 0
           /\ loc[t].result.average_distance = 0
           /\ loc[t].result.best_arrow = NoArrow
           /\ loc[t].result.worst_arrow = NoArrow

\* The step is api_calibrate's `detector = ArrowDetector(target_size=...)`
\* for a target size other than the current detector's.
Reconfigure ==
    \E t \in Threads :
        /\ pc[t] = "ac_swap"
        /\ pc'[t] = "ac_capture"
        /\ heap'[detector'] = NewDetector(heap'[detector'].target_size)
        /\ heap'[detector'].target_size # heap[detector].target_size

\* C15: no step of calibrate, detect_arrows or reset, failed or not, takes a
\* calibrated detector to uncalibrated: an object that is calibrated stays so
\* until it is dropped, and the server's detector goes from calibrated to
\* uncalibrated only by a reconfigure to another target profile.
C15_CalibratedStays ==
    [][ /\ \A o \in ObjIds :
              heap[o].is_calibrated /\ ~heap'[o].is_calibrated
              => \/ heap'[o] = Freed
                 \/ Reconfigure /\ detector' = o
        /\ heap[detector].is_calibrated /\ ~heap'[detector'].is_calibrated
           => Reconfigure ]_vars

\* A calibrate call on a calibrated detector has failed after the debug image
\* and the detector is still calibrated.
C15_Witness ==
    /\ pc[SerialThread] = "cal_ret"
    /\ ~loc[SerialThread].result.success
    /\ loc[SerialThread].result.message = "Calibration error"
    /\ loc[SerialThread].frame.ok
    /\ loc[SerialThread].pre.is_calibrated
    /\ Self(SerialThread).is_calibrated
    /\ loc[SerialThread].self = detector

\* The detect_arrows call returned the not-calibrated failure, before any
\* work on the image, and the session is as it was.
NotCalibrated(t) ==
    /\ loc[t].result = [success |-> FALSE,
                        message |-> "Detector not calibrated",
                        new_arrows |-> << >>]
    /\ Self(t).arrows = loc[t].pre.arrows

\* C16: detect_arrows on a detector that no calibrate call has succeeded on
\* (never calibrated, or new since a reconfigure) returns the not-calibrated
\* failure with no new arrows and no image work, so a session holds no arrow
\* before a calibrate call on its detector has succeeded.
C16_NoDetectBeforeCalibrated ==
    /\ \A t \in Threads :
          pc[t] = "da_ret" /\ ~loc[t].pre.calibrate_succeeded => NotCalibrated(t)
    /\ \A o \in ObjIds : heap[o].arrows # << >> => heap[o].calibrate_succeeded

\* The method returned a tagged result: a dict with a boolean 'success' and a
\* 'message'.
Tagged(result) ==
    /\ {"success", "message"} \subseteq DOMAIN result
    /\ result.success \in BOOLEAN

\* C17: calibrate and detect_arrows return a tagged result for every frame,
\* never an exception; for a frame an image-processing primitive fails on,
\* the result has success=false and the message of the failure.
C17_TaggedResults ==
    \A t \in Threads :
        /\ pc[t] = "cal_ret"
           => /\ Tagged(loc[t].result)
              /\ ~loc[t].frame.ok
                 => /\ ~loc[t].result.success
                    /\ loc[t].result.message = "Calibration error"
        /\ pc[t] = "da_ret"
           => /\ Tagged(loc[t].result)
              /\ ~loc[t].frame.ok
                 => /\ ~loc[t].result.success
                    /\ loc[t].result.message
                          \in {"Detector not calibrated",
                               "Detection cooldown active", "Detection error"}
                    /\ Examined(t) => loc[t].result.message = "Detection error"

\* detect_arrows has been given a frame cv2.cvtColor raises on, past the
\* cooldown, and has returned the failure.
C17_Witness ==
    /\ Examined(SerialThread)
    /\ ~loc[SerialThread].frame.ok
    /\ ~loc[SerialThread].result.success
    /\ loc[SerialThread].result.message = "Detection error"

\* The handlers that only read the detector: api_status calls get_status and
\* get_statistics, api_arrows calls get_all_arrows and get_statistics.
ReadHandlers == {"api_status", "api_arrows"}

\* What get_statistics returns for a detector that does not change during the
\* call.
StatisticsOf(self) ==
    IF self.arrows = << >> THEN empty_statistics
    ELSE [total_arrows |-> Len(self.arrows),
          total_score |-> SumSeq([k \in 1..Len(self.arrows) |-> self.arrows[k].score], 1),
          average_score |->
              mean2([k \in 1..Len(self.arrows) |-> self.arrows[k].score], 100),
          average_distance |->
              mean2([k \in 1..Len(self.arrows) |-> self.arrows[k].distance_cm], 1),
          best_arrow |-> Some(min_by_distance(self.arrows)),
          worst_arrow |-> Some(max_by_distance(self.arrows))]

\* What the two reading handlers answer for such a detector.
ReadResponse(handler, self) ==
    IF handler = "api_status"
    THEN [detector |-> get_status(self), statistics |-> StatisticsOf(self)]
    ELSE [success |-> TRUE, arrows |-> self.arrows, statistics |-> StatisticsOf(self)]

\* The answer of a reading handler is determined by the detector as it is.
ReadsAreFunctions ==
    \A t \in Threads :
        pc[t] = "done" /\ loc[t].handler \in ReadHandlers
        => loc[t].resp = ReadResponse(loc[t].handler, heap[detector])

\* A step of a reading handler changes no detector: not the session, not
\* last_detection_time, not the calibration.
ReadsChangeNothing ==
    (\E t \in Threads : loc[t].handler \in ReadHandlers
                        \/ loc'[t].handler \in ReadHandlers)
    => UNCHANGED <<heap, detector>>

\* C18: get_statistics, get_all_arrows and get_status calls with no mutating
\* call between them return identical results, each being determined by the
\* unchanged detector, and none of them changes the session, the cooldown
\* timestamp or the calibration.
C18_ReadIdempotence == []ReadsAreFunctions /\ [][ReadsChangeNothing]_vars

\* api_arrows has answered for a calibrated detector with two arrows.
C18_Witness ==
    /\ pc[SerialThread] = "done"
    /\ loc[SerialThread].handler = "api_arrows"
    /\ Len(heap[detector].arrows) = 2
    /\ heap[detector].last_detection_time > 0
    /\ loc[SerialThread].resp.statistics.total_arrows = 2
    /\ loc[SerialThread].resp.arrows = heap[detector].arrows

\* The sequence old is a prefix of the sequence new.
IsPrefix(old, new) ==
    /\ Len(old) <= Len(new)
    /\ SubSeq(new, 1, Len(old)) = old

\* Every calibrate and detect_arrows call has left the records the session
\* held, unmodified and in their order, at the front of the session.
CallsOnlyAppend ==
    \A t \in Threads :
        pc[t] \in {"cal_ret", "da_ret"}
        => IsPrefix(loc[t].pre.arrows, Self(t).arrows)

\* A step that takes records away from a detector, or alters one, is reset's
\* `self.arrows = []` or a reconfigure that replaces the detector.
OnlyResetRemoves ==
    \A o \in ObjIds :
        \/ IsPrefix(heap[o].arrows, heap'[o].arrows)
        \/ \E t \in Threads : /\ pc[t] = "rs_arrows"
                              /\ pc'[t] = "rs_time"
                              /\ loc[t].self = o
                              /\ heap'[o].arrows = << >>
        \/ Reconfigure /\ detector' = o

\* C20: between resets the session only grows at its end: calibrate and
\* detect_arrows leave the existing records unmodified and in order, and only
\* reset or reconfigure removes records.
C20_AppendOnly == []CallsOnlyAppend /\ [][OnlyResetRemoves]_vars

\* A detect_arrows call on a session with a record has appended another
\* behind it.
C20_Witness ==
    /\ pc[SerialThread] = "da_ret"
    /\ Len(loc[SerialThread].pre.arrows) = 1
    /\ Len(Self(SerialThread).arrows) = 2
    /\ Self(SerialThread).arrows[1] = loc[SerialThread].pre.arrows[1]
    /\ Self(SerialThread).arrows[2] # loc[SerialThread].pre.arrows[1]

\* The sum of the scores of the first n records.
RECURSIVE ScoreSum(_, _)
ScoreSum(arrows, n) == IF n = 0 THEN 0 ELSE ScoreSum(arrows, n - 1) + arrows[n].score

\* The record at position i is nearest to the centre (farthest, for sign = -1)
\* among the records, and the earliest such.
EarliestExtreme(arrows, i, sign) ==
    /\ \A j \in 1..Len(arrows) :
          sign * arrows[i].distance_cm <= sign * arrows[j].distance_cm
    /\ \A j \in 1..(i - 1) : arrows[j].distance_cm # arrows[i].distance_cm

\* C21: get_statistics on a session with arrows returns the session's length,
\* the sum of its scores, as best_arrow the earliest record of least
\* distance_cm and as worst_arrow the earliest record of greatest distance_cm,
\* all of the session as it is at the call.
C21_Statistics ==
    \A t \in Threads :
        pc[t] = "gs_ret" /\ Self(t).arrows # << >>
        => LET arrows == Self(t).arrows
               stats == loc[t].result
           IN  /\ "raised" \notin DOMAIN stats
               /\ stats.total_arrows = Len(arrows)
               /\ stats.total_score = ScoreSum(arrows, Len(arrows))
               /\ \E i \in 1..Len(arrows) :
                     /\ stats.best_arrow = Some(arrows[i])
                     /\ EarliestExtreme(arrows, i, 1)
               /\ \E i \in 1..Len(arrows) :
                     /\ stats.worst_arrow = Some(arrows[i])
                     /\ EarliestExtreme(arrows, i, -1)

\* get_statistics has answered for a session of two records at the same
\* distance from the centre: the first is both best and worst.
C21_Witness ==
    /\ pc[SerialThread] = "gs_ret"
    /\ Len(Self(SerialThread).arrows) = 2
    /\ Self(SerialThread).arrows[1].distance_cm = Self(SerialThread).arrows[2].distance_cm
    /\ loc[SerialThread].result.best_arrow = Some(Self(SerialThread).arrows[1])
    /\ loc[SerialThread].result.worst_arrow = Some(Self(SerialThread).arrows[1])
    /\ loc[SerialThread].result.total_score
          = Self(SerialThread).arrows[1].score + Self(SerialThread).arrows[2].score

\* C22: the first detect_arrows call on a calibrated detector after a reset
\* (or on a new session) is not rejected with the cooldown failure, however
\* recently an arrow was accepted before the reset.
C22_ResetClearsCooldown ==
    \A t \in Threads :
        /\ pc[t] = "da_ret"
        /\ loc[t].pre.is_calibrated
        /\ ~loc[t].pre.last_call.called
        => loc[t].result.message # "Detection cooldown active"

\* A reset came less than DETECTION_COOLDOWN after an acceptance, and the
\* detect_arrows call after it, still within that time, accepted an arrow.
C22_Witness ==
    /\ pc[SerialThread] = "da_ret"
    /\ loc[SerialThread].pre.is_calibrated
    /\ loc[SerialThread].pre.last_call.forgot
    /\ loc[SerialThread].pre.arrows = << >>
    /\ loc[SerialThread].result.success
    /\ Len(Self(SerialThread).arrows) = 1
    /\ Self(SerialThread).arrows[1].id = 1

\* The labels of a thread inside calibrate between its first assignment and
\* its return.
CalibratingLabels ==
    {"cal_radius", "cal_ppc", "cal_ref", "cal_flag", "cal_debug", "cal_result"}

\* C23: a detector with is_calibrated = true, no calibrate call being at work
\* on it, has target_center, target_radius, pixels_per_cm and reference_frame
\* set, by a calibrate call that succeeded, with pixels_per_cm > 0 and
\* pixels_per_cm = 2 * target_radius / the diameter of its target profile.
C23_CalibrationWellFormed ==
    \A o \in ObjIds :
        /\ heap[o].is_calibrated
        /\ \A t \in Threads : ~(loc[t].self = o /\ pc[t] \in CalibratingLabels)
        => /\ heap[o].target_center # NoCenter
           /\ heap[o].target_radius # NoRadius
           /\ heap[o].pixels_per_cm # NoScale
           /\ heap[o].reference_frame # None
           /\ heap[o].calibrate_succeeded
           /\ heap[o].pixels_per_cm.n > 0
           /\ heap[o].pixels_per_cm
                 = Frac(2 * heap[o].target_radius,
                        TARGET_SIZES[heap[o].target_size].diameter)

\* The locals are those of an api_calibrate request whose body names a target
\* size that is not a key of TARGET_SIZES.
BadBody(l) ==
    /\ l.handler = "api_calibrate"
    /\ l.body # None
    /\ l.body \notin DOMAIN TARGET_SIZES

\* C30: a calibrate request that names a target size unknown to TARGET_SIZES
\* is answered with an error, and no step of it changes the global detector
\* or any detector: target profile, calibration, session and
\* last_detection_time are as before the request.
C30_UnknownSizeChangesNothing ==
    /\ [](\A t \in Threads :
             pc[t] = "done" /\ BadBody(loc[t])
             => /\ ~loc[t].resp.success
                /\ loc[t].resp.status = 500
                /\ heap[detector] = loc[t].before)
    /\ [][(\E t \in Threads : BadBody(loc[t]) \/ BadBody(loc'[t]))
          => UNCHANGED <<heap, detector>>]_vars

\* A calibrate request for an unknown size has been answered for a calibrated
\* 80cm detector with an arrow.
C30_Witness ==
    /\ pc[SerialThread] = "done"
    /\ BadBody(loc[SerialThread])
    /\ ~loc[SerialThread].resp.success
    /\ loc[SerialThread].before.is_calibrated
    /\ loc[SerialThread].before.target_size = "80cm"
    /\ loc[SerialThread].before.arrows # << >>
    /\ heap[detector] = loc[SerialThread].before

\* A request that changes the detector arrives.
MutatingRequest(t, bodies, left) ==
    \/ \E body \in bodies : ApiCalibrate(t, body, left)
    \/ ApiDetect(t, left)
    \/ ApiReset(t, left)

\* A detect request or a request that reads arrives.
ObservingRequest(t, left) ==
    \/ ApiDetect(t, left)
    \/ ApiStatus(t, left)
    \/ ApiArrows(t, left)

\* The threaded server: while one thread serves the requests of a client that
\* sets the system up and shoots, another serves those of a client that
\* watches and shoots, MaxRequests requests in all.  The camera looks at one
\* scene: a target, then an arrow in it.
ConcBodies == {None, "80cm"}

ConcCalFrames == { CalFrame("one", << <<100, 100, 61>> >>) }

ConcDetectFrames == { DetectFrame(<< ContourA >>) }

ConcNext ==
    \/ MutatingRequest("h1", ConcBodies, requests - 1)
    \/ ObservingRequest("h2", requests - 1)
    \/ \E t \in Handlers : Step(t, ConcCalFrames, ConcDetectFrames)

SpecConc == Init /\ [][ConcNext]_vars

\* ------------------------------------------------------------------------
\* The claims of the threaded server
\* ------------------------------------------------------------------------

\* The labels of the statements of calibrate, detect_arrows and reset.
MutatorLabels ==
    {"cal_hough", "cal_center", "cal_radius", "cal_ppc", "cal_ref", "cal_flag",
     "cal_debug", "cal_result",
     "da_calib", "da_cool", "da_diff", "da_loop", "da_extend", "da_time",
     "da_debug", "da_result",
     "rs_arrows", "rs_time"}

\* The thread is inside calibrate, detect_arrows or reset on object o, or
\* about to replace o, the detector, by a new one (reconfigure).
Mutating(t, o) ==
    \/ pc[t] \in MutatorLabels /\ loc[t].self = o
    \/ pc[t] = "ac_swap" /\ detector = o

\* C2: no two of calibrate, detect_arrows, reset and reconfigure are in
\* progress at the same time on the same session and calibration.
C2_MutualExclusion ==
    \A o \in ObjIds : \A t, u \in Threads :
        Mutating(t, o) /\ Mutating(u, o) => t = u

\* C9: reconfigure is atomic for an observer: the status and the statistics
\* that one api_status response combines are those of one target profile,
\* never the status of the detector before the swap with the statistics of
\* the cleared session of the detector after it.
C9_AtomicReconfigure ==
    \A t \in Threads :
        /\ pc[t] = "done"
        /\ loc[t].handler = "api_status"
        /\ "statistics" \in DOMAIN loc[t].resp
        => loc[t].resp.detector.target_size = loc[t].pre.target_size

\* C10: a get_statistics call that runs while detect_arrows or reset does
\* completes without error.
C10_ReadersComplete ==
    \A t \in Threads :
        pc[t] = "gs_ret" => "raised" \notin DOMAIN loc[t].result

\* ------------------------------------------------------------------------
\* Automatic detection: api_auto_detect, api_shutdown, auto_detect_worker
\* ------------------------------------------------------------------------

\* api_auto_detect up to `enable = data.get('enable', not auto_detect_active)`;
\* body is the sequence of the values the request's JSON has under the key
\* 'enable': one, or none.
ApiAutoDetect(t, body, left) ==
    /\ pc[t] = "idle"
    /\ Admit(left)
    /\ IF ~heap[detector].is_calibrated
       THEN /\ pc' = [pc EXCEPT ![t] = "done"]
            /\ loc' = [loc EXCEPT ![t].handler = "api_auto_detect",
                                  ![t].resp = [success |-> FALSE, status |-> 400]]
       ELSE /\ pc' = [pc EXCEPT ![t] = "au_branch"]
            /\ loc' = [loc EXCEPT ![t].handler = "api_auto_detect",
                                  ![t].tmp = IF body = << >>
                                             THEN ~auto_detect_active
                                             ELSE body[1]]
    /\ UNCHANGED <<now, SAVE_DEBUG_IMAGES, heap, detector, background>>

\* `if enable and not auto_detect_active:` ... `elif not enable and
\* auto_detect_active:` ... and, neither holding,
\* `return jsonify({'success': True, 'active': auto_detect_active})`.
au_branch(t) ==
    /\ pc[t] = "au_branch"
    /\ IF loc[t].tmp /\ ~auto_detect_active
       THEN Goto(t, "au_active") /\ UNCHANGED loc
       ELSE IF ~loc[t].tmp /\ auto_detect_active
            THEN Goto(t, "au_inactive") /\ UNCHANGED loc
            ELSE Respond(t, [success |-> TRUE, active |-> auto_detect_active])
    /\ UNCHANGED <<now, requests, SAVE_DEBUG_IMAGES, heap, detector, background>>

\* `auto_detect_active = True`
au_active(t) ==
    /\ pc[t] = "au_active"
    /\ auto_detect_active' = TRUE
    /\ Goto(t, "au_clear")
    /\ UNCHANGED <<now, requests, SAVE_DEBUG_IMAGES, heap, detector, loc,
                   auto_detect_thread, auto_detect_event, is_initialized>>

\* `auto_detect_event.clear()`
au_clear(t) ==
    /\ pc[t] = "au_clear"
    /\ auto_detect_event' = FALSE
    /\ Goto(t, "au_thread")
    /\ UNCHANGED <<now, requests, SAVE_DEBUG_IMAGES, heap, detector, loc,
                   auto_detect_active, auto_detect_thread, is_initialized>>

\* The locals of a polling thread between two calls.
WorkerLoc == [IdleLoc EXCEPT !.handler = "auto_detect_worker"]

\* A worker no live thread runs as and no name or join refers to: the place
\* of the next Thread object.
Unused(w) ==
    /\ pc[w] \in {"unstarted", "ended"}
    /\ auto_detect_thread # w
    /\ \A u \in Handlers : ~(pc[u] = "au_wait" /\ loc[u].tmp = w)

\* `auto_detect_thread = Thread(target=auto_detect_worker, daemon=True)`
au_thread(t) ==
    /\ pc[t] = "au_thread"
    /\ \E w \in Workers : Unused(w)
    /\ LET new == CHOOSE w \in Workers : Unused(w) /\ (Unused("w1") => w = "w1")
       IN  /\ auto_detect_thread' = new
           /\ pc' = [pc EXCEPT ![t] = "au_start", ![new] = "unstarted"]
    /\ UNCHANGED <<now, requests, SAVE_DEBUG_IMAGES, heap, detector, loc,
                   auto_detect_active, auto_detect_event, is_initialized>>

\* `auto_detect_thread.start()` and the response.  The thread the name is
\* bound to by now is started; Thread.start raises RuntimeError on a thread
\* that was started before, which the server turns into a response 500.
au_start(t) ==
    /\ pc[t] = "au_start"
    /\ IF pc[auto_detect_thread] = "unstarted"
       THEN /\ pc' = [pc EXCEPT ![t] = "done", ![auto_detect_thread] = "w_loop"]
            /\ loc' = [loc EXCEPT
                         ![t].resp = [success |-> TRUE, active |-> TRUE,
                                      message |-> "Auto-detection started"],
                         ![auto_detect_thread] = WorkerLoc]
       ELSE Respond(t, [success |-> FALSE, status |-> 500])
    /\ UNCHANGED <<now, requests, SAVE_DEBUG_IMAGES, heap, detector, background>>

\* `auto_detect_active = False`
au_inactive(t) ==
    /\ pc[t] = "au_inactive"
    /\ auto_detect_active' = FALSE
    /\ Goto(t, "au_set")
    /\ UNCHANGED <<now, requests, SAVE_DEBUG_IMAGES, heap, detector, loc,
                   auto_detect_thread, auto_detect_event, is_initialized>>

\* `auto_detect_event.set()`
au_set(t) ==
    /\ pc[t] = "au_set"
    /\ auto_detect_event' = TRUE
    /\ Goto(t, "au_join")
    /\ UNCHANGED <<now, requests, SAVE_DEBUG_IMAGES, heap, detector, loc,
                   auto_detect_active, auto_detect_thread, is_initialized>>

\* The response of a disable request; joined: the worker had ended when join
\* returned.
Stopped(joined) ==
    [success |-> TRUE, active |-> FALSE, message |-> "Auto-detection stopped",
     joined |-> joined]

\* `if auto_detect_thread: auto_detect_thread.join(timeout=3)`: the thread to
\* wait for is the one the name is bound to now.  Thread.join raises
\* RuntimeError on a thread that has not been started: a response 500.
au_join(t) ==
    /\ pc[t] = "au_join"
    /\ IF auto_detect_thread = None
       THEN Respond(t, Stopped(TRUE))
       ELSE IF pc[auto_detect_thread] = "unstarted"
            THEN Respond(t, [success |-> FALSE, status |-> 500])
            ELSE /\ pc' = [pc EXCEPT ![t] = "au_wait"]
                 /\ loc' = [loc EXCEPT ![t].tmp = auto_detect_thread]
    /\ UNCHANGED <<now, requests, SAVE_DEBUG_IMAGES, heap, detector, background>>

\* The statements of detect_arrows.
DetectLabels ==
    {"da_calib", "da_cool", "da_diff", "da_loop", "da_extend", "da_time",
     "da_debug", "da_result", "da_ret"}

\* The worker is inside a detect cycle: between the test of its loop and
\* its sleep.
InCycle(w) == pc[w] \in {"w_check", "w_capture"} \cup DetectLabels

\* A variant of au_wait with `join()`: no timeout.
au_wait_unbounded(t) ==
    /\ pc[t] = "au_wait"
    /\ pc[loc[t].tmp] = "ended"
    /\ Respond(t, Stopped(TRUE))
    /\ UNCHANGED <<now, requests, SAVE_DEBUG_IMAGES, heap, detector, background>>

\* join returns: the thread has ended, or it has not and the three seconds
\* are over; then the response.  The test of the loop takes no time and the
\* sleep two seconds, so that the three seconds can only be over on a worker
\* whose cycle has taken its time: the model lets join time out while the
\* worker is inside a cycle, and wait while it sleeps or tests.
au_wait(t) ==
    /\ pc[t] = "au_wait"
    /\ pc[loc[t].tmp] = "ended" \/ InCycle(loc[t].tmp)
    /\ Respond(t, Stopped(pc[loc[t].tmp] = "ended"))
    /\ UNCHANGED <<now, requests, SAVE_DEBUG_IMAGES, heap, detector, background>>

\* api_shutdown: `auto_detect_active = False`.
ApiShutdown(t, left) ==
    /\ pc[t] = "idle"
    /\ Admit(left)
    /\ auto_detect_active' = FALSE
    /\ pc' = [pc EXCEPT ![t] = "sd_set"]
    /\ loc' = [loc EXCEPT ![t].handler = "api_shutdown"]
    /\ UNCHANGED <<now, SAVE_DEBUG_IMAGES, heap, detector,
                   auto_detect_thread, auto_detect_event, is_initialized>>

\* `auto_detect_event.set()`
sd_set(t) ==
    /\ pc[t] = "sd_set"
    /\ auto_detect_event' = TRUE
    /\ Goto(t, "sd_close")
    /\ UNCHANGED <<now, requests, SAVE_DEBUG_IMAGES, heap, detector, loc,
                   auto_detect_active, auto_detect_thread, is_initialized>>

\* `camera_manager.close()`, the thread that halts the machine two seconds
\* later, and the response.
sd_close(t) ==
    /\ pc[t] = "sd_close"
    /\ is_initialized' = FALSE
    /\ Respond(t, [success |-> TRUE, message |-> "System shutting down..."])
    /\ UNCHANGED <<now, requests, SAVE_DEBUG_IMAGES, heap, detector,
                   auto_detect_active, auto_detect_thread, auto_detect_event>>

\* A variant of w_loop with `while True:`.
w_loop_forever(w) ==
    /\ pc[w] = "w_loop"
    /\ Goto(w, "w_check")
    /\ UNCHANGED <<now, requests, SAVE_DEBUG_IMAGES, heap, detector, loc,
                   background>>

\* auto_detect_worker: `while auto_detect_active and not
\* auto_detect_event.is_set():`, and the end of the thread where it fails.
w_loop(w) ==
    /\ pc[w] = "w_loop"
    /\ Goto(w, IF auto_detect_active /\ ~auto_detect_event THEN "w_check"
               ELSE "ended")
    /\ UNCHANGED <<now, requests, SAVE_DEBUG_IMAGES, heap, detector, loc,
                   background>>

\* `if detector and detector.is_calibrated:`
w_check(w) ==
    /\ pc[w] = "w_check"
    /\ Goto(w, IF heap[detector].is_calibrated THEN "w_capture" ELSE "w_sleep")
    /\ UNCHANGED <<now, requests, SAVE_DEBUG_IMAGES, heap, detector, loc,
                   background>>

\* `frame = camera_manager.capture_frame()` returns None: `if frame is not
\* None` fails, and the cycle is over.
w_capture_fail(w) ==
    /\ pc[w] = "w_capture"
    /\ pc' = [pc EXCEPT ![w] = "w_sleep"]
    /\ loc' = [loc EXCEPT ![w] = WorkerLoc]
    /\ UNCHANGED <<now, requests, SAVE_DEBUG_IMAGES, heap, detector, background>>

\* A variant of w_capture that takes a frame from a closed camera too.
w_capture_closed(w, frame) ==
    /\ pc[w] = "w_capture"
    /\ Len(heap[detector].arrows) + Survivors(frame.contours, 1) <= MaxArrows
    /\ Call(w, "da_calib", detector, frame)
    /\ UNCHANGED <<now, requests, SAVE_DEBUG_IMAGES, heap, detector, background>>

\* It returns a frame: `result = detector.detect_arrows(frame)`.
w_capture(w, frame) ==
    /\ pc[w] = "w_capture"
    /\ is_initialized
    /\ Len(heap[detector].arrows) + Survivors(frame.contours, 1) <= MaxArrows
    /\ Call(w, "da_calib", detector, frame)
    /\ UNCHANGED <<now, requests, SAVE_DEBUG_IMAGES, heap, detector, background>>

\* `if result['success'] and result['new_arrows']:` and the log line.  Of
\* the cycle's locals the model keeps when detect_arrows was called.
w_result(w) ==
    /\ pc[w] = "da_ret"
    /\ pc' = [pc EXCEPT ![w] = "w_sleep"]
    /\ loc' = [loc EXCEPT ![w] = [WorkerLoc EXCEPT !.start = loc[w].start]]
    /\ UNCHANGED <<now, requests, SAVE_DEBUG_IMAGES, heap, detector, background>>

\* `time.sleep(2)` is over.
w_sleep(w) ==
    /\ pc[w] = "w_sleep"
    /\ Goto(w, "w_loop")
    /\ UNCHANGED <<now, requests, SAVE_DEBUG_IMAGES, heap, detector, loc,
                   background>>

\* The bodies of POST /api/auto-detect: no key 'enable', true, false.
EnableBodies == {<< >>, <<TRUE>>, <<FALSE>>}

\* A request of the client arrives.
OperatorRequest(t, left) ==
    \/ ApiCalibrate(t, None, left)
    \/ ApiDetect(t, left)
    \/ ApiReset(t, left)
    \/ \E body \in EnableBodies : ApiAutoDetect(t, body, left)
    \/ ApiShutdown(t, left)

\* A statement of detect_arrows, whoever called it.
DetectStep(t, detectFrames) ==
    \/ da_calib(t)
    \/ da_cool(t)
    \/ da_diff(t)
    \/ da_loop(t)
    \/ da_extend(t)
    \/ da_time(t)
    \/ da_result(t)

\* A request thread takes its next step.
HandlerStep(t, calFrames, detectFrames) ==
    \/ ac_capture_fail(t)
    \/ \E frame \in calFrames : ac_capture(t, frame)
    \/ cal_hough(t)
    \/ cal_center(t)
    \/ cal_radius(t)
    \/ cal_ppc(t)
    \/ cal_ref(t)
    \/ cal_flag(t)
    \/ cal_result(t)
    \/ cal_ret(t)
    \/ ad_capture_fail(t)
    \/ \E frame \in detectFrames : ad_capture(t, frame)
    \/ da_ret(t)
    \/ rs_arrows(t)
    \/ rs_time(t)
    \/ rs_ret(t)
    \/ au_branch(t)
    \/ au_active(t)
    \/ au_clear(t)
    \/ au_thread(t)
    \/ au_start(t)
    \/ au_inactive(t)
    \/ au_set(t)
    \/ au_join(t)
    \/ au_wait(t)
    \/ sd_set(t)
    \/ sd_close(t)
    \/ Finish(t)

\* A polling thread takes its next step.
WorkerStep(w, detectFrames) ==
    \/ w_loop(w)
    \/ w_check(w)
    \/ w_capture_fail(w)
    \/ \E frame \in detectFrames : w_capture(w, frame)
    \/ w_result(w)
    \/ w_sleep(w)

\* The system as config.py ships it (SAVE_DEBUG_IMAGES = False).
InitAuto ==
    /\ Init
    /\ ~SAVE_DEBUG_IMAGES

\* The server with its polling: one client calibrates, shoots, resets,
\* switches the polling and shuts down, each request after the response to
\* the one before, MaxRequests requests in all, while the polling threads
\* run; the camera looks at one scene.
AutoNext ==
    \/ OperatorRequest(SerialThread, requests - 1)
    \/ HandlerStep(SerialThread, ConcCalFrames, ConcDetectFrames)
    \/ \E t \in Threads : DetectStep(t, ConcDetectFrames)
    \/ \E w \in Workers : WorkerStep(w, ConcDetectFrames)

SpecAuto == InitAuto /\ [][AutoNext]_vars

\* The part of a polling thread's steps that is one detect cycle: from the
\* test `if detector and detector.is_calibrated` to the sleep.
CycleStep(w, detectFrames) ==
    \/ w_check(w)
    \/ w_capture_fail(w)
    \/ \E frame \in detectFrames : w_capture(w, frame)
    \/ DetectStep(w, detectFrames)
    \/ w_result(w)

\* The scheduling: a request thread that can take a step takes one, the
\* test of a worker's loop is made, and a sleep ends.  That a detect cycle
\* ends is not part of it: capture_frame and detect_arrows take the time
\* they take.
SpecAutoFair ==
    /\ SpecAuto
    /\ WF_vars(HandlerStep(SerialThread, ConcCalFrames, ConcDetectFrames)
               \/ DetectStep(SerialThread, ConcDetectFrames))
    /\ \A w \in Workers : WF_vars(w_loop(w) \/ w_sleep(w))

\* ------------------------------------------------------------------------
\* The claims of the polling
\* ------------------------------------------------------------------------

\* The thread comes back from camera_manager.capture_frame().
Captured(t) ==
    /\ pc[t] \in {"ad_capture", "w_capture"}
    /\ pc'[t] # pc[t]

\* C24: a capture that fails is surfaced without retry and without touching
\* the session.  A thread that comes back from capture_frame either goes on
\* into detect_arrows, which it never does with the camera closed, or has
\* got None: then api_detect answers 500 and the worker goes to its sleep,
\* the step changing no detector; and from that response or that sleep the
\* thread goes nowhere but to the end of the request or to the next test of
\* the loop, so that there is neither a call of detect_arrows nor a second
\* capture in that request or cycle.
C24_CaptureFailure ==
    /\ [][\A t \in Threads :
            Captured(t) =>
                IF pc'[t] = "da_calib" THEN is_initialized
                ELSE /\ heap' = heap
                     /\ loc'[t].self = 0
                     /\ t \in Workers => pc'[t] = "w_sleep"
                     /\ t \in Handlers =>
                          /\ pc'[t] = "done"
                          /\ loc'[t].resp = [success |-> FALSE, status |-> 500]]_vars
    /\ [][\A t \in Threads :
            /\ pc[t] = "w_sleep" => pc'[t] \in {"w_sleep", "w_loop"}
            /\ pc[t] = "done" => pc'[t] \in {"done", "idle"}]_vars
    /\ [](\A t \in Threads : pc[t] \in DetectLabels => loc[t].self # 0)

\* C27: one shot is recorded once, whoever looks.  With the polling worker
\* and api_detect calling detect_arrows on the same detector while the one
\* arrow of the scene is in the target, the session never holds two records
\* less than MIN_ARROW_DISTANCE_CM apart.
C27_OneRecordPerShot ==
    LET arrows == heap[detector].arrows
    IN  \A i, j \in 1..Len(arrows) :
            i # j => SqDistCm(arrows[i], arrows[j])
                        >= (100 * MIN_ARROW_DISTANCE_CM) * (100 * MIN_ARROW_DISTANCE_CM)

\* C28: ids stay well formed under concurrency.  Whatever detect_arrows calls
\* of the worker and of api_detect and whatever reset interleave on the
\* detector, its session has no two records of one id, begins with the id 1,
\* and has the id i at position i.
C28_IdsWellFormed ==
    LET arrows == heap[detector].arrows
    IN  /\ \A i, j \in 1..Len(arrows) : arrows[i].id = arrows[j].id => i = j
        /\ arrows # << >> => arrows[1].id = 1
        /\ \A i \in 1..Len(arrows) : arrows[i].id = i

\* The worker's thread runs auto_detect_worker.
Running(w) == pc[w] \notin {"unstarted", "ended"}

\* C29: at most one polling worker.  Whatever enable and disable requests
\* api_auto_detect serves, a disable whose join timed out and the enable
\* after it included, at most one thread runs auto_detect_worker.
C29_OneWorker ==
    \A v, w \in Workers : Running(v) /\ Running(w) => v = w

\* Every detect cycle of every worker ends.
CyclesEnd ==
    \A w \in Workers : WF_vars(CycleStep(w, ConcDetectFrames))

\* The polling is switched off: the flag is down and the event set.
SwitchedOff == ~auto_detect_active /\ auto_detect_event

\* C25: the polling worker stops.  Provided that every detect cycle ends, a
\* worker that runs while the polling is switched off, by a disable request
\* or by api_shutdown, leaves its loop, unless the polling is enabled again;
\* and whether the cycles end or not, a disable request that waits for the
\* worker gets its response: the wait is bounded by the timeout of join.
C25_WorkerStops ==
    /\ CyclesEnd =>
         \A w \in Workers :
             (Running(w) /\ SwitchedOff) ~> (~Running(w) \/ auto_detect_active)
    /\ (pc[SerialThread] \in {"au_join", "au_wait"}) ~> (pc[SerialThread] = "done")

\* A disable request has its response, its join having timed out, and the
\* worker it waited for has ended since, nothing having enabled the polling
\* again.
C25_Witness ==
    /\ pc[SerialThread] = "done"
    /\ loc[SerialThread].handler = "api_auto_detect"
    /\ "joined" \in DOMAIN loc[SerialThread].resp
    /\ ~loc[SerialThread].resp.joined
    /\ SwitchedOff
    /\ auto_detect_thread # None
    /\ pc[auto_detect_thread] = "ended"

\* Both have happened: api_detect has answered 500 on the closed camera while
\* a worker, which made no call in its cycle, sleeps, the session being as
\* the shot before left it.
C24_Witness ==
    /\ pc[SerialThread] = "done"
    /\ loc[SerialThread].handler = "api_detect"
    /\ loc[SerialThread].resp = [success |-> FALSE, status |-> 500]
    /\ ~is_initialized
    /\ \E w \in Workers : pc[w] = "w_sleep" /\ loc[w].start = 0
    /\ Len(heap[detector].arrows) = 1

\* ------------------------------------------------------------------------
\* The scorer alone
\* ------------------------------------------------------------------------

\* The distances given to _calculate_score: 0.0 cm to MaxDistanceMm / 10 cm
\* in steps of 0.1 cm.
MaxDistanceMm == 700

\* The float distance_cm of mm tenths of a cm, as calculate_score takes it.
DistanceCm(mm) == [sq |-> mm * mm, den |-> 10]

\* A detector of either profile, and a distance for its scorer.
InitScore ==
    /\ now = StartTime
    /\ SAVE_DEBUG_IMAGES = FALSE
    /\ \E target_size \in DOMAIN TARGET_SIZES :
          heap = [o \in ObjIds |-> IF o = 1 THEN NewDetector(target_size)
                                   ELSE Freed]
    /\ detector = 1
    /\ pc = [t \in Threads |-> IF t \in Workers THEN "unstarted" ELSE "idle"]
    /\ auto_detect_active = FALSE
    /\ auto_detect_thread = None
    /\ auto_detect_event = FALSE
    /\ is_initialized = TRUE
    /\ \E mm \in 0..MaxDistanceMm :
          loc = [t \in Threads |->
                    IF t = SerialThread
                    THEN [IdleLoc EXCEPT !.self = 1, !.tmp = [distance_mm |-> mm]]
                    ELSE IdleLoc]
    /\ requests = 0

\* self._calculate_score(distance_cm)
cs_call(t) ==
    /\ pc[t] = "idle"
    /\ Return(t, "cs_ret", calculate_score(Self(t).target_size,
                                           DistanceCm(loc[t].tmp.distance_mm)))
    /\ UNCHANGED <<now, requests, SAVE_DEBUG_IMAGES, background, heap, detector>>

NextScore == cs_call(SerialThread)

SpecScore == InitScore /\ [][NextScore]_vars

\* The rings of the scorer's detector.
Rings(t) == TARGET_SIZES[Self(t).target_size].rings

\* C13: the score does not increase with the distance, for either profile,
\* and is 0 beyond the largest ring radius.
C13_ScoreMonotone ==
    \A t \in Threads :
        pc[t] = "cs_ret"
        => /\ \A mm \in 0..loc[t].tmp.distance_mm :
                 calculate_score(Self(t).target_size, DistanceCm(mm))
                    >= loc[t].result
           /\ (\A k \in 1..Len(Rings(t)) :
                  loc[t].tmp.distance_mm > Rings(t)[k].radius_mm)
              => loc[t].result = 0

\* The scorer has scored a distance beyond the largest ring of the 80cm
\* profile, and a smaller distance scores more.
C13_Witness ==
    /\ pc[SerialThread] = "cs_ret"
    /\ Self(SerialThread).target_size = "80cm"
    /\ loc[SerialThread].tmp.distance_mm = 401
    /\ loc[SerialThread].result = 0
    /\ calculate_score("80cm", DistanceCm(400)) > 0

\* The rings whose radius is at least the scored distance.
RingsAround(t) ==
    {k \in 1..Len(Rings(t)) : Rings(t)[k].radius_mm >= loc[t].tmp.distance_mm}

\* C19: the score is that of the ring of least radius among those whose
\* radius is at least the distance, a distance on a ring line scoring that
\* ring, and 0 when there is none; on the 122cm profile 3.0 cm scores 10,
\* 50.0 cm scores 5 and 70.0 cm scores 0.
C19_FirstRingAround ==
    \A t \in Threads :
        pc[t] = "cs_ret"
        => /\ IF RingsAround(t) = {} THEN loc[t].result = 0
              ELSE \E k \in RingsAround(t) :
                      /\ \A j \in RingsAround(t) :
                            Rings(t)[k].radius_mm <= Rings(t)[j].radius_mm
                      /\ loc[t].result = Rings(t)[k].score
           /\ Self(t).target_size = "122cm"
              => /\ loc[t].tmp.distance_mm = 30 => loc[t].result = 10
                 /\ loc[t].tmp.distance_mm = 500 => loc[t].result = 5
                 /\ loc[t].tmp.distance_mm = 700 => loc[t].result = 0

\* The scorer has scored a distance of exactly 6.1 cm, the innermost ring
\* line of the 122cm profile, as 10.
C19_Witness ==
    /\ pc[SerialThread] = "cs_ret"
    /\ Self(SerialThread).target_size = "122cm"
    /\ loc[SerialThread].tmp.distance_mm = 61
    /\ loc[SerialThread].result = 10

\* ------------------------------------------------------------------------
\* The angle of a record alone
\* ------------------------------------------------------------------------

\* Offsets of a tip far to the right of the target centre, in pixels; frames
\* are 1920 pixels wide.
FarDx == {600, 1146, 1200}

\* The pixel offsets (dy_px, dx_px) of the tips: those near the centre and
\* those far to its right.
TipOffsets ==
    {<<dy, dx>> : dy \in -6..6, dx \in -8..8}
       \cup {<<dy, dx>> : dy \in -6..6, dx \in FarDx}

\* A detector, and the offset of a tip from its centre.
InitAngle ==
    /\ now = StartTime
    /\ SAVE_DEBUG_IMAGES = FALSE
    /\ heap = [o \in ObjIds |-> IF o = 1 THEN NewDetector(DEFAULT_TARGET_SIZE)
                                ELSE Freed]
    /\ detector = 1
    /\ pc = [t \in Threads |-> IF t \in Workers THEN "unstarted" ELSE "idle"]
    /\ auto_detect_active = FALSE
    /\ auto_detect_thread = None
    /\ auto_detect_event = FALSE
    /\ is_initialized = TRUE
    /\ \E offset \in TipOffsets :
          loc = [t \in Threads |->
                    IF t = SerialThread
                    THEN [IdleLoc EXCEPT !.self = 1,
                                         !.tmp = [dy_px |-> offset[1],
                                                  dx_px |-> offset[2]]]
                    ELSE IdleLoc]
    /\ requests = 0

\* The angle detect_arrows stores for the tip: arctan2, degrees, + 360 when
\* negative, round(angle_deg, 1).
an_call(t) ==
    /\ pc[t] = "idle"
    /\ Return(t, "an_ret", angle_deg(loc[t].tmp.dy_px, loc[t].tmp.dx_px))
    /\ UNCHANGED <<now, requests, SAVE_DEBUG_IMAGES, background, heap, detector>>

NextAngle == an_call(SerialThread)

SpecAngle == InitAngle /\ [][NextAngle]_vars

\* C26: the angle_deg stored in a record, the atan2 angle shifted by 360 when
\* negative and then rounded to one decimal, is at least 0 and less than 360
\* (in tenths of a degree: less than 3600).
C26_AngleRange ==
    \A t \in Threads :
        pc[t] = "an_ret" => loc[t].result >= 0 /\ loc[t].result < 3600

====
